---- MODULE Spec2Model ----
(***************************************************************************)
(* Model of the Plausible provider's reconcile handlers: the Site and Goal *)
(* controllers (Observe / Create / Update / Delete), the REST client they  *)
(* call, and the remote service the client talks to.                       *)
(***************************************************************************)
EXTENDS Integers, Sequences, FiniteSets, TLC

VARIABLES cr, remote, kubeSites, hist, usages, pager

vars == <<cr, remote, kubeSites, hist, usages, pager>>

----------------------------------------------------------------------------
(* Bounds *)

\* how many goals the remote service can hand out an identifier for
MaxGoals == 3
\* items per page the remote service returns from a list request
PageSize == 1
\* how many objects the collection of a list request holds at most
MaxItems == 3

----------------------------------------------------------------------------
(* Values *)

\* a nil pointer (*string, *Site, *Reference)
Nil == "<nil>"
\* a nil error
NoErr == <<>>

DomA == "a.com"
DomB == "b.com"
Domains == {DomA, DomB}

GoalIds == <<"g1", "g2", "g3", "g4", "g5">>

StatusText(s) ==
    CASE s = 200 -> "200" [] s = 201 -> "201" [] s = 204 -> "204"
      [] s = 304 -> "304"
      [] s = 400 -> "400" [] s = 404 -> "404" [] s = 500 -> "500"
      [] OTHER -> "0"

\* errors.Wrap(err, msg): the message is "msg: " followed by err's message
Wrap(err, msg) == <<msg>> \o err

\* errors.New(msg)
NewErr(msg) == <<msg>>

----------------------------------------------------------------------------
(* The remote service.  sites and goals are insertion-ordered lists;       *)
(* rekey says whether the service addresses a renamed site by its new      *)
(* domain (TRUE) or keeps the identifier it had before the rename (FALSE). *)

HasSiteId(rs, id) == \E i \in 1..Len(rs.sites) : rs.sites[i].id = id
HasSiteDomain(rs, d) == \E i \in 1..Len(rs.sites) : rs.sites[i].domain = d
HasGoalId(rs, id) == \E i \in 1..Len(rs.goals) : rs.goals[i].id = id

SiteById(rs, id) ==
    rs.sites[CHOOSE i \in 1..Len(rs.sites) : rs.sites[i].id = id]

\* natural answer of the service to a request: status, decoded payload
\* (a sequence of objects), and the service's state afterwards
Answer(st, items, rs) == [status |-> st, items |-> items, rs |-> rs]

SrvGetSite(rs, id) ==
    IF HasSiteId(rs, id)
    THEN Answer(200, <<SiteById(rs, id)>>, rs)
    ELSE Answer(404, <<>>, rs)

SrvCreateSite(rs, req) ==
    IF req.domain = "" \/ HasSiteDomain(rs, req.domain) \/ HasSiteId(rs, req.domain)
    THEN Answer(400, <<>>, rs)
    ELSE LET s == [id |-> req.domain, domain |-> req.domain, team |-> req.team]
         IN  Answer(201, <<s>>, [rs EXCEPT !.sites = Append(@, s)])

SrvUpdateSite(rs, id, newDomain) ==
    IF ~HasSiteId(rs, id) THEN Answer(404, <<>>, rs)
    ELSE LET old == SiteById(rs, id)
             newId == IF rs.rekey THEN newDomain ELSE id
             clash == \E i \in 1..Len(rs.sites) :
                          /\ rs.sites[i].id # id
                          /\ \/ rs.sites[i].domain = newDomain
                             \/ rs.sites[i].id = newId
             s == [old EXCEPT !.domain = newDomain, !.id = newId]
         IN  IF newDomain = "" \/ clash THEN Answer(400, <<>>, rs)
             ELSE Answer(200, <<s>>,
                    [rs EXCEPT
                       !.sites = [i \in 1..Len(@) |->
                                    IF @[i].id = id THEN s ELSE @[i]],
                       !.goals = [i \in 1..Len(@) |->
                                    IF @[i].site = old.domain
                                    THEN [@[i] EXCEPT !.site = newDomain]
                                    ELSE @[i]]])

SrvDeleteSite(rs, id) ==
    IF ~HasSiteId(rs, id) THEN Answer(404, <<>>, rs)
    ELSE LET old == SiteById(rs, id)
             NotIt(s) == s.id # id
             NotOfIt(g) == g.site # old.domain
         IN  Answer(204, <<>>,
                [rs EXCEPT !.sites = SelectSeq(@, NotIt),
                           !.goals = SelectSeq(@, NotOfIt)])

GoalView(g) ==
    [id |-> g.id, goal_type |-> g.goal_type,
     event_name |-> g.event_name, page_path |-> g.page_path]

GoalsOfSite(rs, d) ==
    LET Of(g) == g.site = d
        mine == SelectSeq(rs.goals, Of)
    IN  [i \in 1..Len(mine) |-> GoalView(mine[i])]

SrvCreateGoal(rs, body) ==
    IF ~HasSiteDomain(rs, body.site_id) THEN Answer(404, <<>>, rs)
    ELSE IF \/ body.goal_type \notin {"event", "page"}
            \/ body.goal_type = "event" /\ body.event_name = ""
            \/ body.goal_type = "page" /\ body.page_path = ""
         THEN Answer(400, <<>>, rs)
    ELSE LET g == [id |-> GoalIds[rs.nextGoal], site |-> body.site_id,
                   goal_type |-> body.goal_type,
                   event_name |-> body.event_name,
                   page_path |-> body.page_path]
         IN  Answer(200, <<GoalView(g)>>,
                [rs EXCEPT !.goals = Append(@, g), !.nextGoal = @ + 1])

SrvDeleteGoal(rs, id) ==
    IF ~HasGoalId(rs, id) THEN Answer(404, <<>>, rs)
    ELSE LET NotIt(g) == g.id # id
         IN  Answer(204, <<>>, [rs EXCEPT !.goals = SelectSeq(@, NotIt)])

\* one page of a list: the items after the cursor and the next cursor
\* (0 is the empty cursor)
SrvPage(items, after) ==
    LET hi == IF after + PageSize < Len(items) THEN after + PageSize ELSE Len(items)
    IN  [items |-> SubSeq(items, after + 1, hi),
         after |-> IF hi < Len(items) THEN hi ELSE 0]

----------------------------------------------------------------------------
(* What can go wrong with one request of a handler call: kind says how,    *)
(* at says which request of the call (1 = the first).                      *)

FaultKinds == {"none", "refused", "lost", "500", "500echo"}
MaxReq == 2
Faults == [kind : FaultKinds, at : 1..MaxReq]

\* a response with a status of the 3xx class that the HTTP client hands
\* over as it is (304 Not Modified: no Location header, empty body)
ClientFaults == [kind : FaultKinds \cup {"304"}, at : 1..MaxReq]
NoFault == [kind |-> "none", at |-> 1]

\* the response the client receives to its k-th request, given the
\* service's natural answer ans, and the service's state afterwards
Exchange(ans, rs0, f, k) ==
    LET hit == f.at = k /\ f.kind # "none"
        text == CASE ans.status = 404 -> <<"Not Found">>
                  [] ans.status = 400 -> <<"Bad Request">>
                  [] OTHER -> <<>>
    IN  CASE hit /\ f.kind = "refused" ->
               [neterr |-> TRUE, status |-> 0, items |-> <<>>, text |-> <<>>,
                decodes |-> FALSE, rs |-> rs0]
          [] hit /\ f.kind = "lost" ->
               [neterr |-> TRUE, status |-> 0, items |-> <<>>, text |-> <<>>,
                decodes |-> FALSE, rs |-> ans.rs]
          [] hit /\ f.kind = "500" ->
               [neterr |-> FALSE, status |-> 500, items |-> <<>>,
                text |-> <<"Internal Server Error">>, decodes |-> FALSE, rs |-> rs0]
          [] hit /\ f.kind = "304" ->
               [neterr |-> FALSE, status |-> 304, items |-> <<>>, text |-> <<>>,
                decodes |-> FALSE, rs |-> rs0]
          [] hit /\ f.kind = "500echo" ->
               [neterr |-> FALSE, status |-> 500, items |-> <<>>,
                text |-> <<"upstream", "status", "404">>, decodes |-> FALSE, rs |-> rs0]
          [] OTHER ->
               [neterr |-> FALSE, status |-> ans.status, items |-> ans.items,
                text |-> text, decodes |-> ans.status < 400, rs |-> ans.rs]

----------------------------------------------------------------------------
(* The REST client (internal/clients/plausible.go).  Every method returns  *)
(* val (<<>> for a nil pointer, else the decoded objects), err, the        *)
(* service's state afterwards and the requests it issued.                  *)

Call(m, p, id, after, body, resp) ==
    [m |-> m, p |-> p, id |-> id, after |-> after, body |-> body,
     status |-> resp.status, text |-> resp.text]

Ret(val, err, rs, calls) == [val |-> val, err |-> err, rs |-> rs, calls |-> calls]

\* doRequest: the error it returns (NoErr when a response was received)
doRequest(resp) ==
    IF resp.neterr THEN Wrap(<<"connection refused">>, "failed to execute request")
    ELSE NoErr

\* parseResponse: the error it returns for a received response; target
\* says whether the caller passes a value to decode the body into
parseResponse(resp, target) ==
    IF resp.status >= 400
    THEN <<"API request failed with", "status", StatusText(resp.status), ":">> \o resp.text
    ELSE IF target /\ resp.status # 204 /\ ~resp.decodes
    THEN Wrap(<<"EOF">>, "failed to decode response")
    ELSE NoErr

\* a classifier that compares the whole message instead of searching it
IsNotFound_WholeMessage(err) ==
    err = <<"API request failed with", "status", "404", ":">>

\* IsNotFound: the error's message contains "status 404"
IsNotFound(err) ==
    /\ err # NoErr
    /\ \E i \in 1..(Len(err) - 1) : err[i] = "status" /\ err[i + 1] = "404"

GetSite(rs, siteID, f) ==
    LET resp == Exchange(SrvGetSite(rs, siteID), rs, f, 1)
        calls == <<Call("GET", "/sites/{id}", siteID, 0, <<>>, resp)>>
    IN  IF doRequest(resp) # NoErr THEN Ret(<<>>, doRequest(resp), resp.rs, calls)
        ELSE IF resp.status = 404 THEN Ret(<<>>, NoErr, resp.rs, calls)
        ELSE IF parseResponse(resp, TRUE) # NoErr
             THEN Ret(<<>>, parseResponse(resp, TRUE), resp.rs, calls)
        ELSE Ret(resp.items, NoErr, resp.rs, calls)

\* the for loop of ListSites / ListGoals: k is the number of the request
\* about to be issued, after the cursor it carries, acc the items so far
RECURSIVE ListLoop(_, _, _, _, _, _, _, _, _)
ListLoop(p, id, st, items, rs, f, k, after, acc) ==
    LET page == IF st = 200 THEN SrvPage(items, after) ELSE [items |-> <<>>, after |-> 0]
        resp == Exchange(Answer(st, page.items, rs), rs, f, k)
        call == Call("GET", p, id, after, <<>>, resp)
    IN  IF doRequest(resp) # NoErr
        THEN Ret(<<>>, doRequest(resp), rs, acc.calls \o <<call>>)
        ELSE IF parseResponse(resp, TRUE) # NoErr
        THEN Ret(<<>>, parseResponse(resp, TRUE), rs, acc.calls \o <<call>>)
        ELSE LET all == acc.val \o resp.items
                 cs == acc.calls \o <<call>>
             IN  IF resp.status # 200 \/ page.after = 0
                 THEN Ret(all, NoErr, rs, cs)
                 ELSE ListLoop(p, id, st, items, rs, f, k + 1, page.after,
                               [val |-> all, calls |-> cs])

\* a ListSites that, when a page request fails, returns the sites of the
\* pages it has fetched
ListSites_KeepPartial(rs, f) ==
    LET l == ListLoop("/sites", "", 200, rs.sites, rs, f, 1, 0,
                      [val |-> <<>>, calls |-> <<>>])
    IN  IF l.err = NoErr THEN l
        ELSE Ret(SubSeq(rs.sites, 1, (Len(l.calls) - 1) * PageSize), NoErr, l.rs, l.calls)
ListSites(rs, f) ==
    ListLoop("/sites", "", 200, rs.sites, rs, f, 1, 0, [val |-> <<>>, calls |-> <<>>])

\* a lookup that takes the first site of the list for the one asked for
GetSiteByDomain_FirstSite(rs, domain, f) ==
    LET l == ListSites(rs, f)
    IN  IF l.err # NoErr THEN Ret(<<>>, l.err, l.rs, l.calls)
        ELSE IF l.val = <<>> THEN Ret(<<>>, NoErr, l.rs, l.calls)
        ELSE Ret(<<l.val[1]>>, NoErr, l.rs, l.calls)

GetSiteByDomain(rs, domain, f) ==
    LET l == ListSites(rs, f)
        hits == {i \in 1..Len(l.val) : l.val[i].domain = domain}
    IN  IF l.err # NoErr THEN Ret(<<>>, l.err, l.rs, l.calls)
        ELSE IF hits = {} THEN Ret(<<>>, NoErr, l.rs, l.calls)
        ELSE Ret(<<l.val[CHOOSE i \in hits : \A j \in hits : i <= j]>>, NoErr, l.rs, l.calls)

CreateSite(rs, req, f) ==
    LET resp == Exchange(SrvCreateSite(rs, req), rs, f, 1)
        calls == <<Call("POST", "/sites", "", 0,
                        <<<<"domain", req.domain>>, <<"team_id", req.team>>,
                          <<"timezone", req.timezone>>>>, resp)>>
    IN  IF doRequest(resp) # NoErr THEN Ret(<<>>, doRequest(resp), resp.rs, calls)
        ELSE IF parseResponse(resp, TRUE) # NoErr
             THEN Ret(<<>>, parseResponse(resp, TRUE), resp.rs, calls)
        ELSE Ret(resp.items, NoErr, resp.rs, calls)

UpdateSite(rs, siteID, newDomain, f) ==
    LET resp == Exchange(SrvUpdateSite(rs, siteID, newDomain), rs, f, 1)
        calls == <<Call("PUT", "/sites/{id}", siteID, 0,
                        <<<<"domain", newDomain>>>>, resp)>>
    IN  IF doRequest(resp) # NoErr THEN Ret(<<>>, doRequest(resp), resp.rs, calls)
        ELSE IF parseResponse(resp, TRUE) # NoErr
             THEN Ret(<<>>, parseResponse(resp, TRUE), resp.rs, calls)
        ELSE Ret(resp.items, NoErr, resp.rs, calls)

DeleteSite(rs, siteID, f) ==
    LET resp == Exchange(SrvDeleteSite(rs, siteID), rs, f, 1)
        calls == <<Call("DELETE", "/sites/{id}", siteID, 0, <<>>, resp)>>
    IN  IF doRequest(resp) # NoErr THEN Ret(<<>>, doRequest(resp), resp.rs, calls)
        ELSE Ret(<<>>, parseResponse(resp, FALSE), resp.rs, calls)

ListGoals(rs, siteDomain, f) ==
    ListLoop("/sites/goals?site_id=", siteDomain,
             IF HasSiteDomain(rs, siteDomain) THEN 200 ELSE 404,
             GoalsOfSite(rs, siteDomain), rs, f, 1, 0,
             [val |-> <<>>, calls |-> <<>>])

GetGoal(rs, siteDomain, goalID, f) ==
    LET l == ListGoals(rs, siteDomain, f)
        hits == {i \in 1..Len(l.val) : l.val[i].id = goalID}
    IN  IF l.err # NoErr THEN Ret(<<>>, l.err, l.rs, l.calls)
        ELSE IF hits = {} THEN Ret(<<>>, NoErr, l.rs, l.calls)
        ELSE Ret(<<l.val[CHOOSE i \in hits : \A j \in hits : i <= j]>>, NoErr, l.rs, l.calls)

CreateGoal(rs, siteDomain, req, f) ==
    LET body == [site_id |-> siteDomain, goal_type |-> req.GoalType,
                 event_name |-> req.EventName, page_path |-> req.PagePath]
        sent == <<<<"site_id", siteDomain>>, <<"goal_type", req.GoalType>>>>
                \o (IF req.EventName # "" THEN <<<<"event_name", req.EventName>>>> ELSE <<>>)
                \o (IF req.PagePath # "" THEN <<<<"page_path", req.PagePath>>>> ELSE <<>>)
        resp == Exchange(SrvCreateGoal(rs, body), rs, f, 1)
        calls == <<Call("PUT", "/sites/goals", "", 0, sent, resp)>>
    IN  IF doRequest(resp) # NoErr THEN Ret(<<>>, doRequest(resp), resp.rs, calls)
        ELSE IF parseResponse(resp, TRUE) # NoErr
             THEN Ret(<<>>, parseResponse(resp, TRUE), resp.rs, calls)
        ELSE Ret(resp.items, NoErr, resp.rs, calls)

DeleteGoal(rs, goalID, f) ==
    LET resp == Exchange(SrvDeleteGoal(rs, goalID), rs, f, 1)
        calls == <<Call("DELETE", "/sites/goals/{id}", goalID, 0, <<>>, resp)>>
    IN  IF doRequest(resp) # NoErr THEN Ret(<<>>, doRequest(resp), resp.rs, calls)
        ELSE Ret(<<>>, parseResponse(resp, FALSE), resp.rs, calls)

----------------------------------------------------------------------------
(* The list helpers request by request.  pager is a call of ListSites      *)
(* (kind "sites") or ListGoals (kind "goals") in progress: after is the    *)
(* cursor the next request carries, acc the items appended so far, reqs    *)
(* the cursors of the requests issued, done whether the helper returned,   *)
(* spin the parity of the requests issued beyond the recorded ones.        *)
(* mode is the server: "paged" hands out the collection page by page and   *)
(* ends with an empty cursor, "echo" returns a non-empty cursor on every   *)
(* page.                                                                   *)

NoPager ==
    [kind |-> "", mode |-> "idle", f |-> NoFault, after |-> 0, acc |-> <<>>,
     reqs |-> <<>>, done |-> FALSE, err |-> NoErr, spin |-> 0]

\* requests of a list helper that are recorded in reqs and acc; of the
\* requests beyond them only spin tells, which flips with each
MaxPages == MaxItems + 2

\* the collection a list request of that kind reads
Listed(rs, kind) == IF kind = "sites" THEN rs.sites ELSE GoalsOfSite(rs, DomA)

\* the page and cursor the server answers with
ServedPage(mode, items, after) ==
    IF mode = "paged" THEN SrvPage(items, after)
    ELSE [items |-> SrvPage(items, after).items,
          after |-> IF after = 0 THEN 1 ELSE after]

\* a loop body that goes on after a page with an empty cursor
ListStep_NoBreak(pg, rs) ==
    LET page == ServedPage(pg.mode, Listed(rs, pg.kind), pg.after)
        resp == Exchange(Answer(200, page.items, rs), rs, pg.f, Len(pg.reqs) + 1)
    IN  [pg EXCEPT !.reqs = Append(@, pg.after), !.acc = @ \o resp.items,
                   !.after = page.after,
                   !.done = doRequest(resp) # NoErr \/ parseResponse(resp, TRUE) # NoErr]

\* a loop body that keeps the last page only
ListStep_LastPage(pg, rs) ==
    LET page == ServedPage(pg.mode, Listed(rs, pg.kind), pg.after)
        resp == Exchange(Answer(200, page.items, rs), rs, pg.f, Len(pg.reqs) + 1)
    IN  [pg EXCEPT !.reqs = Append(@, pg.after), !.acc = resp.items,
                   !.after = page.after,
                   !.done = page.after = 0 \/ doRequest(resp) # NoErr]

\* one pass through the for loop of ListSites / ListGoals
ListStep(pg, rs) ==
    LET page == ServedPage(pg.mode, Listed(rs, pg.kind), pg.after)
        resp == Exchange(Answer(200, page.items, rs), rs, pg.f, Len(pg.reqs) + 1)
        sent == [pg EXCEPT !.reqs = Append(@, pg.after)]
    IN  IF doRequest(resp) # NoErr
        THEN [sent EXCEPT !.done = TRUE, !.err = doRequest(resp), !.acc = <<>>]
        ELSE IF parseResponse(resp, TRUE) # NoErr
        THEN [sent EXCEPT !.done = TRUE, !.err = parseResponse(resp, TRUE), !.acc = <<>>]
        ELSE IF page.after = 0
        THEN [sent EXCEPT !.done = TRUE, !.acc = @ \o resp.items]
        ELSE [sent EXCEPT !.acc = @ \o resp.items, !.after = page.after]

----------------------------------------------------------------------------
(* Managed resources.  extName is the crossplane.io/external-name          *)
(* annotation, cond the status conditions by type (Ready, Synced), each    *)
(* holding the reason last set, "" when the condition is absent.           *)

SiteAtProviderZero == [ID |-> "", Domain |-> "", TeamID |-> ""]
GoalAtProviderZero == [ID |-> "", GoalType |-> "", EventName |-> "", PagePath |-> ""]
NoCond == [Ready |-> "", Synced |-> ""]

\* xpv1.Available(), Creating(), Deleting() are Ready conditions,
\* ReconcileSuccess() is a Synced condition; SetConditions replaces by type
SetAvailable(c) == [c EXCEPT !.cond.Ready = "Available"]
SetCreating(c) == [c EXCEPT !.cond.Ready = "Creating"]
SetDeleting(c) == [c EXCEPT !.cond.Ready = "Deleting"]
SetReconcileSuccess(c) == [c EXCEPT !.cond.Synced = "ReconcileSuccess"]

\* managed.ExternalObservation
Observation(exists, upToDate) ==
    [ResourceExists |-> exists, ResourceUpToDate |-> upToDate]
NoObservation == Observation(FALSE, FALSE)

\* what a handler call leaves behind: the record, the service, the
\* error it returned, its observation, the requests it issued to the
\* service and the records it fetched from the cluster
Out(c, rs, err, obs, calls) ==
    [cr |-> c, rs |-> rs, err |-> err, obs |-> obs, calls |-> calls, gets |-> <<>>]

----------------------------------------------------------------------------
(* Site controller *)

\* a drift rule that also compares the team
isUpToDate_CompareTeam(c, site) ==
    /\ ~(c.spec.NewDomain # Nil /\ c.spec.NewDomain # site.Domain)
    /\ ~(c.spec.TeamID # Nil /\ c.spec.TeamID # site.TeamID)

\* a drift rule that also compares the domain of the spec
isUpToDate_CompareDomain(c, site) ==
    /\ ~(c.spec.NewDomain # Nil /\ c.spec.NewDomain # site.Domain)
    /\ c.spec.Domain = site.Domain
isUpToDate(c, site) ==
    ~(c.spec.NewDomain # Nil /\ c.spec.NewDomain # site.Domain)

SiteSeen(c, s) ==
    LET site == [ID |-> s.id, Domain |-> s.domain, TeamID |-> s.team]
        c1 == [c EXCEPT !.atProvider = site]
    IN  SetReconcileSuccess(SetAvailable(c1))

\* an Observe that answers from the status an earlier Observe left in the
\* record
SiteObserve_Cached(c, rs, f) ==
    IF c.extName # "" /\ c.atProvider.ID = c.extName
    THEN Out(c, rs, NoErr, Observation(TRUE, isUpToDate(c, c.atProvider)), <<>>)
    ELSE IF c.extName # ""
    THEN LET g == GetSite(rs, c.extName, f)
         IN  IF g.err # NoErr
             THEN Out(c, g.rs, Wrap(g.err, "failed to get site by ID"), NoObservation, g.calls)
             ELSE IF g.val = <<>>
             THEN Out(c, g.rs, NoErr, Observation(FALSE, FALSE), g.calls)
             ELSE LET c2 == SiteSeen(c, g.val[1])
                  IN  Out(c2, g.rs, NoErr,
                          Observation(TRUE, isUpToDate(c2, c2.atProvider)), g.calls)
    ELSE LET g == GetSiteByDomain(rs, c.spec.Domain, f)
         IN  IF g.err # NoErr
             THEN Out(c, g.rs, Wrap(g.err, "failed to get site by domain"), NoObservation, g.calls)
             ELSE IF g.val = <<>>
             THEN Out(c, g.rs, NoErr, Observation(FALSE, FALSE), g.calls)
             ELSE LET c1 == [c EXCEPT !.extName = g.val[1].id]
                      c2 == SiteSeen(c1, g.val[1])
                  IN  Out(c2, g.rs, NoErr,
                          Observation(TRUE, isUpToDate(c2, c2.atProvider)), g.calls)

\* an Observe whose discovery reports the site it found without recording
\* its identifier in the external name
SiteObserve_NoAdopt(c, rs, f) ==
    IF c.extName # ""
    THEN LET g == GetSite(rs, c.extName, f)
         IN  IF g.err # NoErr
             THEN Out(c, g.rs, Wrap(g.err, "failed to get site by ID"), NoObservation, g.calls)
             ELSE IF g.val = <<>>
             THEN Out(c, g.rs, NoErr, Observation(FALSE, FALSE), g.calls)
             ELSE LET c2 == SiteSeen(c, g.val[1])
                  IN  Out(c2, g.rs, NoErr,
                          Observation(TRUE, isUpToDate(c2, c2.atProvider)), g.calls)
    ELSE LET g == GetSiteByDomain(rs, c.spec.Domain, f)
         IN  IF g.err # NoErr
             THEN Out(c, g.rs, Wrap(g.err, "failed to get site by domain"), NoObservation, g.calls)
             ELSE IF g.val = <<>>
             THEN Out(c, g.rs, NoErr, Observation(FALSE, FALSE), g.calls)
             ELSE LET c2 == SiteSeen(c, g.val[1])
                  IN  Out(c2, g.rs, NoErr,
                          Observation(TRUE, isUpToDate(c2, c2.atProvider)), g.calls)
SiteObserve(c, rs, f) ==
    IF c.extName # ""
    THEN LET g == GetSite(rs, c.extName, f)
         IN  IF g.err # NoErr
             THEN Out(c, g.rs, Wrap(g.err, "failed to get site by ID"), NoObservation, g.calls)
             ELSE IF g.val = <<>>
             THEN Out(c, g.rs, NoErr, Observation(FALSE, FALSE), g.calls)
             ELSE LET c2 == SiteSeen(c, g.val[1])
                  IN  Out(c2, g.rs, NoErr,
                          Observation(TRUE, isUpToDate(c2, c2.atProvider)), g.calls)
    ELSE LET g == GetSiteByDomain(rs, c.spec.Domain, f)
         IN  IF g.err # NoErr
             THEN Out(c, g.rs, Wrap(g.err, "failed to get site by domain"), NoObservation, g.calls)
             ELSE IF g.val = <<>>
             THEN Out(c, g.rs, NoErr, Observation(FALSE, FALSE), g.calls)
             ELSE LET c1 == [c EXCEPT !.extName = g.val[1].id]
                      c2 == SiteSeen(c1, g.val[1])
                  IN  Out(c2, g.rs, NoErr,
                          Observation(TRUE, isUpToDate(c2, c2.atProvider)), g.calls)

\* a Create that names the record before it asks the service
SiteCreate_NameFirst(c, rs, f) ==
    LET c1 == [SetCreating(c) EXCEPT !.extName = c.spec.Domain]
        g == CreateSite(rs, [domain |-> c.spec.Domain, team |-> "", timezone |-> ""], f)
    IN  IF g.err # NoErr
        THEN Out(c1, g.rs, Wrap(g.err, "failed to create site"), NoObservation, g.calls)
        ELSE Out(c1, g.rs, NoErr, NoObservation, g.calls)

\* a Create that leaves the external name alone
SiteCreate_NoName(c, rs, f) ==
    LET g == CreateSite(rs, [domain |-> c.spec.Domain, team |-> "", timezone |-> ""], f)
    IN  IF g.err # NoErr
        THEN Out(SetCreating(c), g.rs, Wrap(g.err, "failed to create site"),
                 NoObservation, g.calls)
        ELSE Out(SetCreating(c), g.rs, NoErr, NoObservation, g.calls)

SiteCreate(c, rs, f) ==
    LET c1 == SetCreating(c)
        req == [domain |-> c.spec.Domain,
                team |-> IF c.spec.TeamID # Nil THEN c.spec.TeamID ELSE "",
                timezone |-> IF c.spec.Timezone # Nil THEN c.spec.Timezone ELSE ""]
        g == CreateSite(rs, req, f)
    IN  IF g.err # NoErr
        THEN Out(c1, g.rs, Wrap(g.err, "failed to create site"), NoObservation, g.calls)
        ELSE Out([c1 EXCEPT !.extName = g.val[1].id], g.rs, NoErr, NoObservation, g.calls)

\* an Update that records the renamed domain in the status
SiteUpdate_CacheDomain(c, rs, f) ==
    IF c.spec.NewDomain # Nil /\ c.spec.NewDomain # c.atProvider.Domain
    THEN LET g == UpdateSite(rs, c.extName, c.spec.NewDomain, f)
         IN  IF g.err # NoErr
             THEN Out(c, g.rs, Wrap(g.err, "failed to update site domain"), NoObservation, g.calls)
             ELSE Out([c EXCEPT !.atProvider.Domain = g.val[1].domain], g.rs, NoErr,
                      NoObservation, g.calls)
    ELSE Out(c, rs, NoErr, NoObservation, <<>>)

\* an Update that takes the new domain for the external name
SiteUpdate_Rederive(c, rs, f) ==
    IF c.spec.NewDomain # Nil /\ c.spec.NewDomain # c.atProvider.Domain
    THEN LET g == UpdateSite(rs, c.extName, c.spec.NewDomain, f)
         IN  IF g.err # NoErr
             THEN Out(c, g.rs, Wrap(g.err, "failed to update site domain"), NoObservation, g.calls)
             ELSE Out([c EXCEPT !.extName = c.spec.NewDomain], g.rs, NoErr,
                      NoObservation, g.calls)
    ELSE Out(c, rs, NoErr, NoObservation, <<>>)

\* an Update that sends the rename whenever newDomain is set
SiteUpdate_Always(c, rs, f) ==
    IF c.spec.NewDomain # Nil
    THEN LET g == UpdateSite(rs, c.extName, c.spec.NewDomain, f)
         IN  IF g.err # NoErr
             THEN Out(c, g.rs, Wrap(g.err, "failed to update site domain"), NoObservation, g.calls)
             ELSE Out(c, g.rs, NoErr, NoObservation, g.calls)
    ELSE Out(c, rs, NoErr, NoObservation, <<>>)

\* an Update that compares newDomain with the domain of the spec
SiteUpdate_SpecDomain(c, rs, f) ==
    IF c.spec.NewDomain # Nil /\ c.spec.NewDomain # c.spec.Domain
    THEN LET g == UpdateSite(rs, c.extName, c.spec.NewDomain, f)
         IN  IF g.err # NoErr
             THEN Out(c, g.rs, Wrap(g.err, "failed to update site domain"), NoObservation, g.calls)
             ELSE Out(c, g.rs, NoErr, NoObservation, g.calls)
    ELSE Out(c, rs, NoErr, NoObservation, <<>>)
SiteUpdate(c, rs, f) ==
    IF c.spec.NewDomain # Nil /\ c.spec.NewDomain # c.atProvider.Domain
    THEN LET g == UpdateSite(rs, c.extName, c.spec.NewDomain, f)
         IN  IF g.err # NoErr
             THEN Out(c, g.rs, Wrap(g.err, "failed to update site domain"), NoObservation, g.calls)
             ELSE Out(c, g.rs, NoErr, NoObservation, g.calls)
    ELSE Out(c, rs, NoErr, NoObservation, <<>>)

SiteDelete(c, rs, f) ==
    LET c1 == SetDeleting(c)
        g == DeleteSite(rs, c.extName, f)
    IN  IF g.err # NoErr /\ ~IsNotFound(g.err)
        THEN Out(c1, g.rs, Wrap(g.err, "failed to delete site"), NoObservation, g.calls)
        ELSE Out(c1, g.rs, NoErr, NoObservation, g.calls)

----------------------------------------------------------------------------
(* Goal controller *)

\* a resolver that asks for the referenced Site before it looks at the
\* direct value
getSiteDomain_RefFirst(c, kube, kf) ==
    LET Get(res) == <<[name |-> c.spec.SiteDomainRef, result |-> res]>>
    IN  IF c.spec.SiteDomainRef # Nil /\ kf = "ok" /\ c.spec.SiteDomainRef \in DOMAIN kube
        THEN [val |-> kube[c.spec.SiteDomainRef], err |-> NoErr, gets |-> Get("ok")]
        ELSE IF c.spec.SiteDomain # Nil /\ c.spec.SiteDomain # ""
        THEN [val |-> c.spec.SiteDomain, err |-> NoErr, gets |-> <<>>]
        ELSE [val |-> "", err |-> NewErr("no site domain specified"), gets |-> <<>>]

\* a resolver that goes on with an empty domain when the fetch fails
getSiteDomain_IgnoreFailure(c, kube, kf) ==
    LET Get(res) == <<[name |-> c.spec.SiteDomainRef, result |-> res]>>
    IN  IF c.spec.SiteDomain # Nil /\ c.spec.SiteDomain # ""
        THEN [val |-> c.spec.SiteDomain, err |-> NoErr, gets |-> <<>>]
        ELSE IF c.spec.SiteDomainRef # Nil
        THEN IF kf = "fail" THEN [val |-> "", gets |-> Get("failed"), err |-> NoErr]
             ELSE IF c.spec.SiteDomainRef \notin DOMAIN kube
             THEN [val |-> "", gets |-> Get("not found"), err |-> NoErr]
             ELSE [val |-> kube[c.spec.SiteDomainRef], err |-> NoErr, gets |-> Get("ok")]
        ELSE [val |-> "", err |-> NewErr("no site domain specified"), gets |-> <<>>]

\* a resolver that resolves to the empty domain when nothing names a site
getSiteDomain_EmptyDefault(c, kube, kf) ==
    LET Get(res) == <<[name |-> c.spec.SiteDomainRef, result |-> res]>>
    IN  IF c.spec.SiteDomain # Nil /\ c.spec.SiteDomain # ""
        THEN [val |-> c.spec.SiteDomain, err |-> NoErr, gets |-> <<>>]
        ELSE IF c.spec.SiteDomainRef # Nil
        THEN IF kf = "fail"
             THEN [val |-> "", gets |-> Get("failed"),
                   err |-> Wrap(<<"apiserver unavailable">>, "cannot get referenced Site")]
             ELSE IF c.spec.SiteDomainRef \notin DOMAIN kube
             THEN [val |-> "", gets |-> Get("not found"),
                   err |-> Wrap(<<"not found">>, "cannot get referenced Site")]
             ELSE [val |-> kube[c.spec.SiteDomainRef], err |-> NoErr, gets |-> Get("ok")]
        ELSE IF c.spec.SiteDomainSelector # Nil
        THEN [val |-> "", gets |-> <<>>,
              err |-> NewErr("site domain selector is not yet implemented")]
        ELSE [val |-> "", err |-> NoErr, gets |-> <<>>]

\* kube.Get of the referenced Site: kf says whether the API server answers
getSiteDomain(c, kube, kf) ==
    LET Get(res) == <<[name |-> c.spec.SiteDomainRef, result |-> res]>>
    IN  IF c.spec.SiteDomain # Nil /\ c.spec.SiteDomain # ""
        THEN [val |-> c.spec.SiteDomain, err |-> NoErr, gets |-> <<>>]
        ELSE IF c.spec.SiteDomainRef # Nil
        THEN IF kf = "fail"
             THEN [val |-> "", gets |-> Get("failed"),
                   err |-> Wrap(<<"apiserver unavailable">>, "cannot get referenced Site")]
             ELSE IF c.spec.SiteDomainRef \notin DOMAIN kube
             THEN [val |-> "", gets |-> Get("not found"),
                   err |-> Wrap(<<"not found">>, "cannot get referenced Site")]
             ELSE [val |-> kube[c.spec.SiteDomainRef], err |-> NoErr, gets |-> Get("ok")]
        ELSE IF c.spec.SiteDomainSelector # Nil
        THEN [val |-> "", gets |-> <<>>,
              err |-> NewErr("site domain selector is not yet implemented")]
        ELSE [val |-> "", err |-> NewErr("no site domain specified"), gets |-> <<>>]

\* a comparison of the goal type alone
goalMatches_TypeOnly(c, goal) == c.spec.GoalType = goal.goal_type

\* a comparison of every field the record sets, whatever the kind
goalMatches_EveryField(c, goal) ==
    /\ c.spec.GoalType = goal.goal_type
    /\ c.spec.EventName # Nil => c.spec.EventName = goal.event_name
    /\ c.spec.PagePath # Nil => c.spec.PagePath = goal.page_path
goalMatches(c, goal) ==
    IF c.spec.GoalType # goal.goal_type THEN FALSE
    ELSE CASE c.spec.GoalType = "event" ->
                c.spec.EventName # Nil /\ c.spec.EventName = goal.event_name
           [] c.spec.GoalType = "page" ->
                c.spec.PagePath # Nil /\ c.spec.PagePath = goal.page_path
           [] OTHER -> FALSE

GoalSeen(c, goal) ==
    LET c1 == [c EXCEPT !.atProvider =
                  [ID |-> goal.id, GoalType |-> goal.goal_type,
                   EventName |-> goal.event_name, PagePath |-> goal.page_path]]
    IN  SetAvailable(c1)

\* an Observe that looks a goal up by its external name only: a record
\* without one is reported as missing, whatever the site holds
GoalObserve_NoDiscovery(c, rs, kube, f, kf) ==
    LET sd == getSiteDomain(c, kube, kf)
    IN  [gets |-> sd.gets] @@
        IF sd.err # NoErr THEN Out(c, rs, sd.err, NoObservation, <<>>)
        ELSE IF c.extName # ""
        THEN LET g == GetGoal(rs, sd.val, c.extName, f)
             IN  IF g.err # NoErr
                 THEN Out(c, g.rs, Wrap(g.err, "failed to get goal"), NoObservation, g.calls)
                 ELSE IF g.val = <<>>
                 THEN Out(c, g.rs, NoErr, Observation(FALSE, FALSE), g.calls)
                 ELSE Out(GoalSeen(c, g.val[1]), g.rs, NoErr, Observation(TRUE, TRUE), g.calls)
        ELSE Out(c, rs, NoErr, Observation(FALSE, FALSE), <<>>)
GoalObserve(c, rs, kube, f, kf) ==
    LET sd == getSiteDomain(c, kube, kf)
    IN  [gets |-> sd.gets] @@
        IF sd.err # NoErr THEN Out(c, rs, sd.err, NoObservation, <<>>)
        ELSE IF c.extName # ""
        THEN LET g == GetGoal(rs, sd.val, c.extName, f)
             IN  IF g.err # NoErr
                 THEN Out(c, g.rs, Wrap(g.err, "failed to get goal"), NoObservation, g.calls)
                 ELSE IF g.val = <<>>
                 THEN Out(c, g.rs, NoErr, Observation(FALSE, FALSE), g.calls)
                 ELSE Out(GoalSeen(c, g.val[1]), g.rs, NoErr, Observation(TRUE, TRUE), g.calls)
        ELSE LET g == ListGoals(rs, sd.val, f)
                 hits == {i \in 1..Len(g.val) : goalMatches(c, g.val[i])}
             IN  IF g.err # NoErr
                 THEN Out(c, g.rs, Wrap(g.err, "failed to list goals"), NoObservation, g.calls)
                 ELSE IF hits = {}
                 THEN Out(c, g.rs, NoErr, Observation(FALSE, FALSE), g.calls)
                 ELSE LET goal == g.val[CHOOSE i \in hits : \A j \in hits : i <= j]
                          c1 == [c EXCEPT !.extName = goal.id]
                      IN  Out(GoalSeen(c1, goal), g.rs, NoErr, Observation(TRUE, TRUE), g.calls)

\* a Create that scans the goal list again and adopts a goal of the
\* record's key instead of creating another
GoalCreate_Rescan(c, rs, kube, f, kf) ==
    LET c1 == SetCreating(c)
        sd == getSiteDomain(c, kube, kf)
        req == [GoalType |-> c.spec.GoalType,
                EventName |-> IF c.spec.GoalType = "event" /\ c.spec.EventName # Nil
                              THEN c.spec.EventName ELSE "",
                PagePath |-> IF c.spec.GoalType = "page" /\ c.spec.PagePath # Nil
                             THEN c.spec.PagePath ELSE ""]
    IN  [gets |-> sd.gets] @@
        IF sd.err # NoErr THEN Out(c1, rs, sd.err, NoObservation, <<>>)
        ELSE IF c.spec.GoalType = "event" /\ c.spec.EventName = Nil
        THEN Out(c1, rs, NewErr("event name is required for event goals"), NoObservation, <<>>)
        ELSE IF c.spec.GoalType = "page" /\ c.spec.PagePath = Nil
        THEN Out(c1, rs, NewErr("page path is required for page goals"), NoObservation, <<>>)
        ELSE LET l == ListGoals(rs, sd.val, NoFault)
                 hits == {i \in 1..Len(l.val) : goalMatches(c, l.val[i])}
                 g == CreateGoal(rs, sd.val, req, f)
             IN  IF l.err = NoErr /\ hits # {}
                 THEN Out([c1 EXCEPT !.extName = l.val[CHOOSE i \in hits : TRUE].id],
                          rs, NoErr, NoObservation, l.calls)
                 ELSE IF g.err # NoErr
                 THEN Out(c1, g.rs, Wrap(g.err, "failed to create goal"), NoObservation, g.calls)
                 ELSE Out([c1 EXCEPT !.extName = g.val[1].id], g.rs, NoErr, NoObservation, g.calls)

\* a Create that sends whatever the spec holds
GoalCreate_NoValidation(c, rs, kube, f, kf) ==
    LET c1 == SetCreating(c)
        sd == getSiteDomain(c, kube, kf)
        req == [GoalType |-> c.spec.GoalType,
                EventName |-> IF c.spec.GoalType = "event" /\ c.spec.EventName # Nil
                              THEN c.spec.EventName ELSE "",
                PagePath |-> IF c.spec.GoalType = "page" /\ c.spec.PagePath # Nil
                             THEN c.spec.PagePath ELSE ""]
    IN  [gets |-> sd.gets] @@
        IF sd.err # NoErr THEN Out(c1, rs, sd.err, NoObservation, <<>>)
        ELSE LET g == CreateGoal(rs, sd.val, req, f)
             IN  IF g.err # NoErr
                 THEN Out(c1, g.rs, Wrap(g.err, "failed to create goal"), NoObservation, g.calls)
                 ELSE Out([c1 EXCEPT !.extName = g.val[1].id], g.rs, NoErr, NoObservation, g.calls)

GoalCreate(c, rs, kube, f, kf) ==
    LET c1 == SetCreating(c)
        sd == getSiteDomain(c, kube, kf)
        req == [GoalType |-> c.spec.GoalType,
                EventName |-> IF c.spec.GoalType = "event" /\ c.spec.EventName # Nil
                              THEN c.spec.EventName ELSE "",
                PagePath |-> IF c.spec.GoalType = "page" /\ c.spec.PagePath # Nil
                             THEN c.spec.PagePath ELSE ""]
    IN  [gets |-> sd.gets] @@
        IF sd.err # NoErr THEN Out(c1, rs, sd.err, NoObservation, <<>>)
        ELSE IF c.spec.GoalType = "event" /\ c.spec.EventName = Nil
        THEN Out(c1, rs, NewErr("event name is required for event goals"), NoObservation, <<>>)
        ELSE IF c.spec.GoalType = "page" /\ c.spec.PagePath = Nil
        THEN Out(c1, rs, NewErr("page path is required for page goals"), NoObservation, <<>>)
        ELSE LET g == CreateGoal(rs, sd.val, req, f)
             IN  IF g.err # NoErr
                 THEN Out(c1, g.rs, Wrap(g.err, "failed to create goal"), NoObservation, g.calls)
                 ELSE Out([c1 EXCEPT !.extName = g.val[1].id], g.rs, NoErr, NoObservation, g.calls)

\* an Update that replaces the remote goal
GoalUpdate_Replace(c, rs) ==
    LET g == DeleteGoal(rs, c.extName, NoFault)
    IN  Out(c, g.rs, NoErr, NoObservation, g.calls)

GoalUpdate(c, rs) == Out(c, rs, NoErr, NoObservation, <<>>)

GoalDelete(c, rs, f) ==
    LET c1 == SetDeleting(c)
        g == DeleteGoal(rs, c.extName, f)
    IN  IF g.err # NoErr /\ ~IsNotFound(g.err)
        THEN Out(c1, g.rs, Wrap(g.err, "failed to delete goal"), NoObservation, g.calls)
        ELSE Out(c1, g.rs, NoErr, NoObservation, g.calls)

----------------------------------------------------------------------------
(* Connect (clients.GetConfig).  usages is the set of ProviderConfigUsage   *)
(* objects the cluster holds, each with its namespace, its name and the    *)
(* record that owns it; cf says which step of GetConfig fails, "ok" when   *)
(* none does.  trail lists the steps taken with their results.             *)

ConnectFaults == {"ok", "no reference", "get", "track", "credentials", "unmarshal"}

Step(name, res) == <<[name |-> name, result |-> res]>>

\* the ProviderConfigUsage Track builds for the record uid
Usage(uid) == [namespace |-> "crossplane-system", name |-> uid, owner |-> uid]

\* kube.Create: the API server refuses an object whose namespace and name
\* an object of the store has
KubeCreate(store, obj, fails) ==
    IF fails THEN [err |-> <<"create failed">>, store |-> store]
    ELSE IF \E o \in store : o.namespace = obj.namespace /\ o.name = obj.name
    THEN [err |-> <<"already exists">>, store |-> store]
    ELSE [err |-> NoErr, store |-> store \cup {obj}]

\* client.IgnoreAlreadyExists
IgnoreAlreadyExists(err) == IF err = <<"already exists">> THEN NoErr ELSE err

\* a Track that returns what kube.Create returns
Track_NoIgnore(uid, us, fails) ==
    LET made == KubeCreate(us, Usage(uid), fails)
    IN  [err |-> IF made.err = NoErr THEN NoErr
                 ELSE Wrap(made.err, "cannot create ProviderConfigUsage"),
         usages |-> made.store]

\* providerConfigUsageTracker.Track: kube.Create of the usage named after
\* the record, an AlreadyExists error ignored
Track(uid, us, fails) ==
    LET made == KubeCreate(us, Usage(uid), fails)
        err == IgnoreAlreadyExists(made.err)
    IN  [err |-> IF err = NoErr THEN NoErr
                 ELSE Wrap(err, "cannot create ProviderConfigUsage"),
         usages |-> made.store]

GetConfigResult(cfg, err, us, trail) ==
    [cfg |-> cfg, err |-> err, usages |-> us, trail |-> trail]

\* a GetConfig that takes credentials it cannot decode for an empty key
GetConfig_EmptyKey(uid, us, cf) ==
    IF cf \in {"no reference", "get", "track", "credentials"}
    THEN GetConfigResult(Nil, NewErr("cannot get config"), us, Step("GetConfig", "failed"))
    ELSE GetConfigResult("config", NoErr, us \cup {Usage(uid)},
                         IF cf = "unmarshal" THEN Step("Unmarshal", "failed")
                         ELSE Step("Unmarshal", "ok"))

GetConfig(uid, us, cf) ==
    IF cf = "no reference"
    THEN GetConfigResult(Nil, NewErr("no providerConfig specified"), us,
                         Step("GetProviderConfigReference", "failed"))
    ELSE IF cf = "get"
    THEN GetConfigResult(Nil, Wrap(<<"not found">>, "cannot get providerConfig"), us,
                         Step("Get ProviderConfig", "failed"))
    ELSE LET t == Track(uid, us, cf = "track")
             got == Step("Get ProviderConfig", "ok")
         IN  IF t.err # NoErr
             THEN GetConfigResult(Nil, Wrap(t.err, "cannot track ProviderConfig usage"),
                                  t.usages, got \o Step("Track", "failed"))
             ELSE IF cf = "credentials"
             THEN GetConfigResult(Nil, Wrap(<<"secret not found">>, "cannot extract credentials"),
                                  t.usages,
                                  got \o Step("Track", "ok") \o Step("Extract", "failed"))
             ELSE IF cf = "unmarshal"
             THEN GetConfigResult(Nil, Wrap(<<"invalid character">>, "cannot unmarshal credentials"),
                                  t.usages,
                                  got \o Step("Track", "ok") \o Step("Extract", "ok")
                                      \o Step("Unmarshal", "failed"))
             ELSE GetConfigResult("config", NoErr, t.usages,
                                  got \o Step("Track", "ok") \o Step("Extract", "ok")
                                      \o Step("Unmarshal", "ok"))

\* connector.Connect: client says whether an ExternalClient is returned
Connect(uid, us, cf) ==
    LET g == GetConfig(uid, us, cf)
    IN  IF g.err # NoErr
        THEN [client |-> FALSE, err |-> g.err, usages |-> g.usages, trail |-> g.trail]
        ELSE [client |-> TRUE, err |-> NoErr, usages |-> g.usages, trail |-> g.trail]

----------------------------------------------------------------------------
(* The managed reconciler's tick: Observe, then Delete when the record is  *)
(* being deleted and still exists, Create when it does not exist, Update   *)
(* when it is not up to date.  hist keeps the results of the last two      *)
(* handler calls on a record.                                              *)

RecNames == {"r1"}
Recs == DOMAIN cr

\* ext is the record's external name when the handler was called
Entry(op, ext, o) ==
    [op |-> op, ext |-> ext, err |-> o.err, obs |-> o.obs, calls |-> o.calls,
     gets |-> o.gets]

Push(h, e) ==
    LET all == Append(h, e)
    IN  IF Len(all) > 2 THEN Tail(all) ELSE all

HasLast(r) == Len(hist[r]) > 0
Last(r) == hist[r][Len(hist[r])]

\* the last handler call was an Observe that returned an observation
Observed(r) == HasLast(r) /\ Last(r).op = "Observe" /\ Last(r).err = NoErr

\* a record whose deletion found nothing left to delete is gone
Finalized(r) == cr[r].deleting /\ Observed(r) /\ ~Last(r).obs.ResourceExists

\* out is the handler's result, computed once
Apply(r, op, out) ==
    \E o \in {out} :
        /\ cr' = [cr EXCEPT ![r] = o.cr]
        /\ remote' = o.rs
        /\ hist' = [hist EXCEPT ![r] = Push(@, Entry(op, cr[r].extName, o))]
        /\ usages' = Connect(r, usages, "ok").usages
        /\ UNCHANGED <<kubeSites, pager>>

ObserveOut(r, f, kf) ==
    IF cr[r].kind = "Site" THEN SiteObserve(cr[r], remote, f)
    ELSE GoalObserve(cr[r], remote, kubeSites, f, kf)

CreateOut(r, f, kf) ==
    IF cr[r].kind = "Site" THEN SiteCreate(cr[r], remote, f)
    ELSE GoalCreate(cr[r], remote, kubeSites, f, kf)

UpdateOut(r, f) ==
    IF cr[r].kind = "Site" THEN SiteUpdate(cr[r], remote, f)
    ELSE GoalUpdate(cr[r], remote)

DeleteOut(r, f) ==
    IF cr[r].kind = "Site" THEN SiteDelete(cr[r], remote, f)
    ELSE GoalDelete(cr[r], remote, f)

KubeFaults == {"ok", "fail"}

Observe(r) ==
    /\ ~Finalized(r)
    /\ \E f \in Faults, kf \in KubeFaults : Apply(r, "Observe", ObserveOut(r, f, kf))

Create(r) ==
    /\ Observed(r) /\ ~Last(r).obs.ResourceExists /\ ~cr[r].deleting
    /\ remote.nextGoal <= MaxGoals
    /\ \E f \in Faults, kf \in KubeFaults : Apply(r, "Create", CreateOut(r, f, kf))

Update(r) ==
    /\ Observed(r) /\ Last(r).obs.ResourceExists /\ ~Last(r).obs.ResourceUpToDate
    /\ ~cr[r].deleting
    /\ \E f \in Faults : Apply(r, "Update", UpdateOut(r, f))

Delete(r) ==
    /\ Observed(r) /\ Last(r).obs.ResourceExists /\ cr[r].deleting
    /\ \E f \in Faults : Apply(r, "Delete", DeleteOut(r, f))

\* the user deletes the record: it gets a deletion timestamp
MarkDeleted(r) ==
    /\ ~cr[r].deleting
    /\ cr' = [cr EXCEPT ![r].deleting = TRUE]
    /\ UNCHANGED <<remote, kubeSites, hist, usages, pager>>

\* somebody else deletes a remote object
OutOfBandDeleteSite ==
    /\ \E i \in 1..Len(remote.sites) :
          remote' = SrvDeleteSite(remote, remote.sites[i].id).rs
    /\ UNCHANGED <<cr, kubeSites, hist, usages, pager>>

OutOfBandDeleteGoal ==
    /\ \E i \in 1..Len(remote.goals) :
          remote' = SrvDeleteGoal(remote, remote.goals[i].id).rs
    /\ UNCHANGED <<cr, kubeSites, hist, usages, pager>>

----------------------------------------------------------------------------
(* Initial states: one record, as applied by the user (possibly with an    *)
(* external-name annotation, as examples/import-existing.sh does), and a   *)
(* remote service that may already hold objects.                           *)

RemoteSite(d) == [id |-> d, domain |-> d, team |-> ""]
RemoteGoal(id, ev) ==
    [id |-> id, site |-> DomA, goal_type |-> "event", event_name |-> ev, page_path |-> ""]

SiteSpecs ==
    {[Domain |-> DomA, NewDomain |-> nd, TeamID |-> tt[1], Timezone |-> tt[2]] :
        nd \in {Nil, DomA, DomB}, tt \in {<<Nil, Nil>>, <<"t1", "UTC">>}}

SiteRecord(sp, ext) ==
    [kind |-> "Site", spec |-> sp, extName |-> ext, deleting |-> FALSE,
     atProvider |-> SiteAtProviderZero, cond |-> NoCond]

GoalSpec(sd, ref, sel, ty, ev, pp) ==
    [SiteDomain |-> sd, SiteDomainRef |-> ref, SiteDomainSelector |-> sel,
     GoalType |-> ty, EventName |-> ev, PagePath |-> pp]

GoalSpecs ==
    {GoalSpec(DomA, Nil, Nil, "event", "signup", Nil),
     GoalSpec(DomA, "site-a", "sel", "event", "signup", "/p"),
     GoalSpec("", "site-a", Nil, "event", "signup", Nil),
     GoalSpec(Nil, "site-a", Nil, "event", "signup", Nil),
     GoalSpec(Nil, "missing", Nil, "event", "signup", Nil),
     GoalSpec(Nil, Nil, "sel", "event", "signup", Nil),
     GoalSpec(Nil, Nil, Nil, "event", "signup", Nil),
     GoalSpec(DomA, Nil, Nil, "event", Nil, Nil),
     GoalSpec(DomA, Nil, Nil, "page", Nil, "/p"),
     GoalSpec(DomA, Nil, Nil, "page", Nil, Nil),
     GoalSpec(DomB, Nil, Nil, "event", "signup", Nil)}

GoalRecord(sp, ext) ==
    [kind |-> "Goal", spec |-> sp, extName |-> ext, deleting |-> FALSE,
     atProvider |-> GoalAtProviderZero, cond |-> NoCond]

InitSite ==
    /\ \E sp \in SiteSpecs, ext \in {"", DomA, DomB} :
          cr = [r \in RecNames |-> SiteRecord(sp, ext)]
    /\ \E ss \in {<<>>, <<RemoteSite(DomA)>>, <<RemoteSite(DomB)>>,
                  <<RemoteSite(DomB), RemoteSite(DomA)>>}, k \in BOOLEAN :
          remote = [sites |-> ss, goals |-> <<>>, nextGoal |-> 1, rekey |-> k]

InitGoal ==
    /\ \E sp \in GoalSpecs, ext \in {"", "g1"} :
          cr = [r \in RecNames |-> GoalRecord(sp, ext)]
    /\ \E gs \in {<<>>, <<RemoteGoal("g1", "signup")>>,
                  <<RemoteGoal("g1", "other"), RemoteGoal("g2", "signup")>>} :
          remote = [sites |-> <<RemoteSite(DomA)>>, goals |-> gs,
                    nextGoal |-> Len(gs) + 1, rekey |-> TRUE]

Init ==
    /\ InitSite \/ InitGoal
    /\ kubeSites = [n \in {"site-a"} |-> DomA]
    /\ hist = [r \in RecNames |-> <<>>]
    /\ usages = {}
    /\ pager = NoPager

Next ==
    \/ \E r \in Recs : Observe(r)
    \/ \E r \in Recs : Create(r)
    \/ \E r \in Recs : Update(r)
    \/ \E r \in Recs : Delete(r)
    \/ \E r \in Recs : MarkDeleted(r)
    \/ OutOfBandDeleteSite
    \/ OutOfBandDeleteGoal

Spec == Init /\ [][Next]_vars

----------------------------------------------------------------------------
(* The reconciler left to itself: every request is answered (no transport  *)
(* failure, no server error, the cluster's API server answers), nobody     *)
(* else touches the remote objects and the record is not deleted.  The     *)
(* records have specs the handlers accept and the remote service may have  *)
(* lost the object a record's external name refers to.                     *)

LiveObserve(r) == Apply(r, "Observe", ObserveOut(r, NoFault, "ok"))

LiveCreate(r) ==
    /\ Observed(r) /\ ~Last(r).obs.ResourceExists /\ ~cr[r].deleting
    /\ remote.nextGoal <= MaxGoals
    /\ Apply(r, "Create", CreateOut(r, NoFault, "ok"))

LiveUpdate(r) ==
    /\ Observed(r) /\ Last(r).obs.ResourceExists /\ ~Last(r).obs.ResourceUpToDate
    /\ ~cr[r].deleting
    /\ Apply(r, "Update", UpdateOut(r, NoFault))

LiveGoalSpecs ==
    {GoalSpec(DomA, Nil, Nil, "event", "signup", Nil),
     GoalSpec(DomA, "site-a", "sel", "event", "signup", "/p"),
     GoalSpec(Nil, "site-a", Nil, "event", "signup", Nil),
     GoalSpec(DomA, Nil, Nil, "page", Nil, "/p")}

InitLive ==
    /\ \/ /\ \E sp \in SiteSpecs, ext \in {"", DomA} :
                cr = [r \in RecNames |-> SiteRecord(sp, ext)]
          /\ \E ss \in {<<>>, <<RemoteSite(DomA)>>}, k \in BOOLEAN :
                remote = [sites |-> ss, goals |-> <<>>, nextGoal |-> 1, rekey |-> k]
       \/ /\ \E sp \in LiveGoalSpecs, ext \in {"", "g1"} :
                cr = [r \in RecNames |-> GoalRecord(sp, ext)]
          /\ \E gs \in {<<>>, <<RemoteGoal("g1", "signup")>>,
                        <<RemoteGoal("g1", "other"), RemoteGoal("g2", "signup")>>} :
                remote = [sites |-> <<RemoteSite(DomA)>>, goals |-> gs,
                          nextGoal |-> Len(gs) + 1, rekey |-> TRUE]
    /\ kubeSites = [n \in {"site-a"} |-> DomA]
    /\ hist = [r \in RecNames |-> <<>>]
    /\ usages = {}
    /\ pager = NoPager

NextLive ==
    \/ \E r \in RecNames : LiveObserve(r)
    \/ \E r \in RecNames : LiveCreate(r)
    \/ \E r \in RecNames : LiveUpdate(r)

\* reconcile ticks keep coming
SpecLive == InitLive /\ [][NextLive]_vars /\ WF_vars(NextLive)

----------------------------------------------------------------------------
(* The tick with its Connect: every tick starts with Connect, and only a   *)
(* Connect that returned a client is followed by Observe.  A Connect       *)
(* leaves an entry in hist that carries the steps GetConfig took and       *)
(* whether a client was returned.                                          *)

ConnectEntry(ext, g) ==
    [op |-> "Connect", ext |-> ext, err |-> g.err, obs |-> NoObservation,
     calls |-> <<>>, gets |-> g.trail, client |-> g.client]

\* the last thing that happened to r is a Connect that returned a client
Connected(r) == HasLast(r) /\ Last(r).op = "Connect" /\ Last(r).client

TickConnect(r) ==
    \E cf \in ConnectFaults :
        LET g == Connect(r, usages, cf)
        IN  /\ hist' = [hist EXCEPT ![r] = Push(@, ConnectEntry(cr[r].extName, g))]
            /\ usages' = g.usages
            /\ UNCHANGED <<cr, remote, kubeSites, pager>>

TickObserve(r) == Connected(r) /\ LiveObserve(r)

NextConnect ==
    \/ \E r \in RecNames : TickConnect(r)
    \/ \E r \in RecNames : TickObserve(r)
    \/ \E r \in RecNames : LiveCreate(r)
    \/ \E r \in RecNames : LiveUpdate(r)

SpecConnect == InitLive /\ [][NextConnect]_vars

----------------------------------------------------------------------------
(* The client on its own: any of its operations is called with arguments   *)
(* that may or may not name a remote object, and one of its requests may   *)
(* be answered with a failure or with a response of the 3xx class.  hist   *)
(* keeps the operation, what it returned and the requests it issued; each  *)
(* behaviour is one call, on one of the initial states of the service.     *)

ClientOps ==
    {"GetSite", "GetSiteByDomain", "ListSites", "CreateSite", "UpdateSite",
     "DeleteSite", "ListGoals", "GetGoal", "CreateGoal", "DeleteGoal"}

ClientCall(rs, op, d, gid, f) ==
    CASE op = "GetSite" -> GetSite(rs, d, f)
      [] op = "GetSiteByDomain" -> GetSiteByDomain(rs, d, f)
      [] op = "ListSites" -> ListSites(rs, f)
      [] op = "CreateSite" ->
            CreateSite(rs, [domain |-> d, team |-> "", timezone |-> ""], f)
      [] op = "UpdateSite" ->
            UpdateSite(rs, d, IF d = DomA THEN DomB ELSE DomA, f)
      [] op = "DeleteSite" -> DeleteSite(rs, d, f)
      [] op = "ListGoals" -> ListGoals(rs, d, f)
      [] op = "GetGoal" -> GetGoal(rs, d, gid, f)
      [] op = "CreateGoal" ->
            CreateGoal(rs, d, [GoalType |-> "event", EventName |-> "signup",
                               PagePath |-> ""], f)
      [] op = "DeleteGoal" -> DeleteGoal(rs, gid, f)

ClientEntry(op, d, g) ==
    [op |-> op, ext |-> d, err |-> g.err, obs |-> NoObservation,
     calls |-> g.calls, gets |-> <<>>, val |-> g.val]

CallClient(r) ==
    /\ ~HasLast(r)
    /\ remote.nextGoal <= MaxGoals
    /\ \E op \in ClientOps, d \in Domains, gid \in {"g1", "g2"}, f \in ClientFaults :
          LET g == ClientCall(remote, op, d, gid, f)
          IN  /\ remote' = g.rs
              /\ hist' = [hist EXCEPT ![r] = Push(@, ClientEntry(op, d, g))]
    /\ UNCHANGED <<cr, kubeSites, usages, pager>>

InitClient ==
    /\ cr = [r \in RecNames |-> SiteRecord(
                [Domain |-> DomA, NewDomain |-> Nil, TeamID |-> Nil, Timezone |-> Nil], "")]
    /\ kubeSites = [n \in {"site-a"} |-> DomA]
    /\ hist = [r \in RecNames |-> <<>>]
    /\ usages = {}
    /\ pager = NoPager
    /\ \E ss \in {<<>>, <<RemoteSite(DomA)>>, <<RemoteSite(DomB), RemoteSite(DomA)>>},
          gs \in {<<>>, <<RemoteGoal("g1", "signup")>>,
                  <<RemoteGoal("g1", "other"), RemoteGoal("g2", "signup")>>} :
          /\ gs # <<>> => HasSiteDomain([sites |-> ss], DomA)
          /\ remote = [sites |-> ss, goals |-> gs, nextGoal |-> Len(gs) + 1,
                       rekey |-> TRUE]

NextClient == \E r \in RecNames : CallClient(r)

SpecClient == InitClient /\ [][NextClient]_vars

----------------------------------------------------------------------------
(* A call of a list helper on its own: the collection holds up to MaxItems *)
(* objects, the server is of either mode and one request may fail.         *)

ItemDomains == <<"a.com", "b.com", "c.com", "d.com", "e.com">>

InitList ==
    /\ cr = [r \in RecNames |-> SiteRecord(
                [Domain |-> DomA, NewDomain |-> Nil, TeamID |-> Nil, Timezone |-> Nil], "")]
    /\ kubeSites = [n \in {"site-a"} |-> DomA]
    /\ hist = [r \in RecNames |-> <<>>]
    /\ usages = {}
    /\ \E n \in 0..MaxItems, kind \in {"sites", "goals"} :
          /\ remote =
                IF kind = "sites"
                THEN [sites |-> [i \in 1..n |-> RemoteSite(ItemDomains[i])],
                      goals |-> <<>>, nextGoal |-> 1, rekey |-> TRUE]
                ELSE [sites |-> <<RemoteSite(DomA)>>,
                      goals |-> [i \in 1..n |-> RemoteGoal(GoalIds[i], "signup")],
                      nextGoal |-> n + 1, rekey |-> TRUE]
          /\ \E mode \in {"paged", "echo"}, f \in Faults :
                pager = [NoPager EXCEPT !.kind = kind, !.mode = mode, !.f = f]

\* what is kept of a pass through the loop that is no longer recorded
Unrecorded(next, pg) ==
    [next EXCEPT !.reqs = pg.reqs,
                 !.acc = IF next.done THEN next.acc ELSE pg.acc,
                 !.spin = 1 - pg.spin]

ListRequest ==
    /\ pager.mode # "idle" /\ ~pager.done
    /\ pager' = IF Len(pager.reqs) < MaxPages
                THEN ListStep(pager, remote)
                ELSE Unrecorded(ListStep(pager, remote), pager)
    /\ UNCHANGED <<cr, remote, kubeSites, hist, usages>>

NextList == ListRequest

\* the helper keeps going until it returns
SpecList == InitList /\ [][NextList]_vars /\ WF_vars(NextList)

----------------------------------------------------------------------------
(* A tick that is cancelled while its Observe runs: the Observe of a Site  *)
(* without external name, request by request (the list of GetSiteByDomain  *)
(* in pager, then the rest of the handler), and the cancellation of the    *)
(* context the handler was called with, at any moment of it.  The client's *)
(* methods take no context and build their requests without one, so no     *)
(* step of the handler depends on the cancellation.                        *)

CancelEntry(ext) ==
    [op |-> "Cancel", ext |-> ext, err |-> NoErr, obs |-> NoObservation,
     calls |-> <<>>, gets |-> <<>>]

\* the context of r's tick is cancelled
Cancelled(r) == \E i \in 1..Len(hist[r]) : hist[r][i].op = "Cancel"

\* Observe calls GetSiteByDomain, which calls ListSites
StartObserve(r) ==
    /\ hist[r] = <<>> /\ pager.mode = "idle"
    /\ cr[r].kind = "Site" /\ cr[r].extName = ""
    /\ \E f \in Faults :
          pager' = [NoPager EXCEPT !.kind = "sites", !.mode = "paged", !.f = f]
    /\ UNCHANGED <<cr, remote, kubeSites, hist, usages>>

\* ListSites has returned: the rest of GetSiteByDomain and of Observe
FinishObserve(r) ==
    /\ pager.mode # "idle" /\ pager.done
    /\ \E o \in {SiteObserve(cr[r], remote, pager.f)} :
          /\ cr' = [cr EXCEPT ![r] = o.cr]
          /\ hist' = [hist EXCEPT ![r] = Push(@, Entry("Observe", cr[r].extName, o))]
    /\ pager' = [pager EXCEPT !.mode = "idle"]
    /\ UNCHANGED <<remote, kubeSites, usages>>

Cancel(r) ==
    /\ pager.mode # "idle" /\ ~Cancelled(r)
    /\ hist' = [hist EXCEPT ![r] = Push(@, CancelEntry(cr[r].extName))]
    /\ UNCHANGED <<cr, remote, kubeSites, usages, pager>>

InitCancel ==
    /\ \E sp \in SiteSpecs : cr = [r \in RecNames |-> SiteRecord(sp, "")]
    /\ kubeSites = [n \in {"site-a"} |-> DomA]
    /\ hist = [r \in RecNames |-> <<>>]
    /\ usages = {}
    /\ pager = NoPager
    /\ \E n \in 0..MaxItems :
          remote = [sites |-> [i \in 1..n |-> RemoteSite(ItemDomains[n + 1 - i])],
                    goals |-> <<>>, nextGoal |-> 1, rekey |-> TRUE]

NextCancel ==
    \/ \E r \in RecNames : StartObserve(r)
    \/ ListRequest
    \/ \E r \in RecNames : FinishObserve(r)
    \/ \E r \in RecNames : Cancel(r)

SpecCancel == InitCancel /\ [][NextCancel]_vars

----------------------------------------------------------------------------
(* Two records reconciled at the same time through one ProviderConfig:     *)
(* every Connect builds a client of its own (NewClient) that holds the     *)
(* configuration only, so the handlers of the two records share nothing    *)
(* but the remote service, and their calls interleave in any order.  The   *)
(* records are two Sites of different domains or of the same domain, two   *)
(* Goals of different keys, or two Goals of the same key; every request    *)
(* is answered.                                                            *)

TwoRecs == {"r1", "r2"}

DomC == "c.com"

TwoObserve(r) == ~Finalized(r) /\ LiveObserve(r)

LiveDelete(r) ==
    /\ Observed(r) /\ Last(r).obs.ResourceExists /\ cr[r].deleting
    /\ Apply(r, "Delete", DeleteOut(r, NoFault))

PlainSite(d, nd) == [Domain |-> d, NewDomain |-> nd, TeamID |-> Nil, Timezone |-> Nil]

EventGoal(d, ev) == GoalSpec(d, Nil, Nil, "event", ev, Nil)

InitTwoSites ==
    /\ \E nd \in {Nil, DomC}, e1 \in {"", DomA}, d2 \in {DomB, DomA} :
          \E e2 \in {"", d2} :
             cr = [r \in TwoRecs |->
                     IF r = "r1" THEN SiteRecord(PlainSite(DomA, nd), e1)
                     ELSE SiteRecord(PlainSite(d2, Nil), e2)]
    /\ \E ss \in {<<>>, <<RemoteSite(DomA)>>, <<RemoteSite(DomB)>>,
                  <<RemoteSite(DomA), RemoteSite(DomB)>>,
                  <<RemoteSite(DomB), RemoteSite(DomA)>>}, k \in BOOLEAN :
          remote = [sites |-> ss, goals |-> <<>>, nextGoal |-> 1, rekey |-> k]

InitTwoGoals ==
    /\ \E sp \in {EventGoal(DomA, "purchase"), EventGoal(DomB, "signup"),
                   EventGoal(DomA, "signup")} :
          cr = [r \in TwoRecs |->
                  IF r = "r1" THEN GoalRecord(EventGoal(DomA, "signup"), "")
                  ELSE GoalRecord(sp, "")]
    /\ \E gs \in {<<>>, <<RemoteGoal("g1", "purchase")>>} :
          remote = [sites |-> <<RemoteSite(DomA), RemoteSite(DomB)>>, goals |-> gs,
                    nextGoal |-> Len(gs) + 1, rekey |-> TRUE]

InitTwo ==
    /\ InitTwoSites \/ InitTwoGoals
    /\ kubeSites = [n \in {"site-a"} |-> DomA]
    /\ hist = [r \in TwoRecs |-> <<>>]
    /\ usages = {}
    /\ pager = NoPager

NextTwo ==
    \/ \E r \in Recs : TwoObserve(r)
    \/ \E r \in Recs : LiveCreate(r)
    \/ \E r \in Recs : LiveUpdate(r)
    \/ \E r \in Recs : LiveDelete(r)
    \/ \E r \in Recs : MarkDeleted(r)

SpecTwo == InitTwo /\ [][NextTwo]_vars

----------------------------------------------------------------------------
(* goalMatches on its own: a Goal record and one remote goal, of any       *)
(* combination of kinds and values (a record's optional fields may be      *)
(* absent; a remote goal's fields are strings, possibly empty), and one    *)
(* application of goalMatches to them, its result kept in hist.            *)

MatchKinds == {"event", "page", "custom"}
MatchEvents == {"", "signup", "login"}
MatchPaths == {"", "/signup", "/login"}

MatchEntry(c, goal) ==
    [op |-> "Match", ext |-> c.extName, err |-> NoErr, obs |-> NoObservation,
     calls |-> <<>>, gets |-> <<>>, val |-> goalMatches(c, goal)]

Match(r) ==
    /\ ~HasLast(r)
    /\ hist' = [hist EXCEPT ![r] = Push(@, MatchEntry(cr[r], GoalView(remote.goals[1])))]
    /\ UNCHANGED <<cr, remote, kubeSites, usages, pager>>

InitMatch ==
    /\ \E ty \in MatchKinds, ev \in MatchEvents \cup {Nil}, pp \in MatchPaths \cup {Nil} :
          cr = [r \in RecNames |-> GoalRecord(GoalSpec(DomA, Nil, Nil, ty, ev, pp), "")]
    /\ \E ty \in MatchKinds, ev \in MatchEvents, pp \in MatchPaths :
          remote = [sites |-> <<RemoteSite(DomA)>>,
                    goals |-> <<[id |-> "g1", site |-> DomA, goal_type |-> ty,
                                 event_name |-> ev, page_path |-> pp]>>,
                    nextGoal |-> 2, rekey |-> TRUE]
    /\ kubeSites = [n \in {"site-a"} |-> DomA]
    /\ hist = [r \in RecNames |-> <<>>]
    /\ usages = {}
    /\ pager = NoPager

NextMatch == \E r \in RecNames : Match(r)

SpecMatch == InitMatch /\ [][NextMatch]_vars

----------------------------------------------------------------------------
(* Vocabulary of the properties *)

LastOf(h) == h[Len(h)]

\* the step is a call of handler op on record r
Called(r, op) == hist'[r] # hist[r] /\ LastOf(hist'[r]).op = op

\* the text carries the marker "status 404"
Carries404(text) ==
    \E i \in 1..(Len(text) - 1) : text[i] = "status" /\ text[i + 1] = "404"

\* a request that got no response, or a response with an error status
FailedCall(c) == c.status = 0 \/ c.status >= 400

\* a request hit by a transport failure or a server error (5xx)
Transient(c) == c.status = 0 \/ c.status >= 500

\* the call met no transport failure, no server error and no failure of
\* the cluster's API server
Undisturbed(e) ==
    /\ \A i \in 1..Len(e.calls) : ~Transient(e.calls[i])
    /\ \A i \in 1..Len(e.gets) : e.gets[i].result # "failed"

\* the entries of r's history
Entries(r) == {hist[r][i] : i \in 1..Len(hist[r])}

\* the site a Goal belongs to, when its spec names one that resolves
ResolvesSite(c) ==
    \/ c.spec.SiteDomain \notin {Nil, ""}
    \/ c.spec.SiteDomainRef \in DOMAIN kubeSites
SiteOf(c) ==
    IF c.spec.SiteDomain \notin {Nil, ""} THEN c.spec.SiteDomain
    ELSE kubeSites[c.spec.SiteDomainRef]

\* the remote goal has the record's natural key
SameKey(c, g) ==
    /\ g.goal_type = c.spec.GoalType
    /\ \/ c.spec.GoalType = "event" /\ c.spec.EventName # Nil
          /\ g.event_name = c.spec.EventName
       \/ c.spec.GoalType = "page" /\ c.spec.PagePath # Nil
          /\ g.page_path = c.spec.PagePath

\* identities of the remote objects that have the record's natural key
MatchIds(c, rs) ==
    IF c.kind = "Site"
    THEN {rs.sites[i].id : i \in {j \in 1..Len(rs.sites) : rs.sites[j].domain = c.spec.Domain}}
    ELSE IF ~ResolvesSite(c) THEN {}
    ELSE {rs.goals[i].id : i \in {j \in 1..Len(rs.goals) :
              rs.goals[j].site = SiteOf(c) /\ SameKey(c, rs.goals[j])}}

\* the remote object with identity id exists where the record looks for it
StillThere(c, rs, id) ==
    IF c.kind = "Site" THEN HasSiteId(rs, id)
    ELSE /\ ResolvesSite(c) /\ HasSiteDomain(rs, SiteOf(c))
         /\ \E i \in 1..Len(rs.goals) :
               rs.goals[i].id = id /\ rs.goals[i].site = SiteOf(c)

Present == Observation(TRUE, TRUE)

----------------------------------------------------------------------------
(* C1 *)

----------------------------------------------------------------------------
(* C2 *)

C2_Discovery(r) ==
    ( /\ Called(r, "Observe")
      /\ cr[r].extName = ""
      /\ Cardinality(MatchIds(cr[r], remote)) = 1
      /\ cr[r].kind = "Site" => cr[r].spec.NewDomain \in {Nil, cr[r].spec.Domain}
      /\ Undisturbed(LastOf(hist'[r])) )
    => /\ LastOf(hist'[r]).err = NoErr
       /\ LastOf(hist'[r]).obs = Present
       /\ {cr'[r].extName} = MatchIds(cr[r], remote)

C2_Second(r) ==
    ( /\ Called(r, "Observe")
      /\ HasLast(r) /\ Last(r).op = "Observe" /\ Last(r).ext = ""
      /\ Last(r).err = NoErr /\ Last(r).obs = Present
      /\ StillThere(cr[r], remote, cr[r].extName)
      /\ Undisturbed(LastOf(hist'[r])) )
    => /\ LastOf(hist'[r]).err = NoErr
       /\ LastOf(hist'[r]).obs = Present
       /\ LastOf(hist'[r]).ext # "" /\ cr'[r].extName = cr[r].extName
       /\ cr'[r].atProvider.ID = cr[r].extName
       /\ cr[r].kind = "Site" =>
             /\ Len(LastOf(hist'[r]).calls) = 1
             /\ LastOf(hist'[r]).calls[1].p = "/sites/{id}"
             /\ LastOf(hist'[r]).calls[1].id = cr[r].extName

\* C2: Discovery stability.  An Observe of a record (Site or Goal) that has
\* no external name, while exactly one remote object has the record's natural
\* key (and a Site asks for no rename), sets the external name to that
\* object's identity and reports exists and up to date; and an Observe that
\* follows such a discovery while the object is still there looks the object
\* up by that identity (for a Site with a get of /sites/{id}, not a list),
\* keeps the external name and reports exists and up to date again.
C2_DiscoveryStability ==
    [][\A r \in Recs : C2_Discovery(r) /\ C2_Second(r)]_vars

\* a Site found by discovery and then observed again through its identity
C2_Witness ==
    \E r \in Recs :
        /\ cr[r].kind = "Site" /\ Len(hist[r]) = 2
        /\ hist[r][1].op = "Observe" /\ hist[r][1].ext = ""
        /\ hist[r][1].obs = Present /\ hist[r][1].err = NoErr
        /\ hist[r][1].calls[1].p = "/sites"
        /\ hist[r][2].op = "Observe" /\ hist[r][2].ext = cr[r].extName
        /\ hist[r][2].obs = Present /\ hist[r][2].calls[1].p = "/sites/{id}"

----------------------------------------------------------------------------
(* C3 *)

\* the Site asks for a rename to a domain other than the one observed
WantsRename(c) ==
    /\ c.kind = "Site" /\ c.spec.NewDomain # Nil
    /\ c.spec.NewDomain # c.atProvider.Domain

C3_Drift(r) ==
    ( /\ Called(r, "Observe")
      /\ LastOf(hist'[r]).err = NoErr /\ LastOf(hist'[r]).obs.ResourceExists
      /\ WantsRename(cr'[r]) )
    => LastOf(hist'[r]).obs = Observation(TRUE, FALSE)

C3_Rename(r) ==
    ( /\ Called(r, "Update") /\ cr[r].kind = "Site" )
    => /\ Len(LastOf(hist'[r]).calls) = 1
       /\ LastOf(hist'[r]).calls[1].m = "PUT"
       /\ LastOf(hist'[r]).calls[1].p = "/sites/{id}"
       /\ LastOf(hist'[r]).calls[1].id = cr[r].extName
       /\ LastOf(hist'[r]).calls[1].body = <<<<"domain", cr[r].spec.NewDomain>>>>

\* the last call on r was an Update whose rename request succeeded
Renamed(r) ==
    /\ cr[r].kind = "Site" /\ HasLast(r) /\ Last(r).op = "Update"
    /\ Last(r).err = NoErr /\ Len(Last(r).calls) = 1
    /\ Last(r).calls[1].status = 200

C3_After(r) ==
    ( /\ Called(r, "Observe") /\ Renamed(r)
      /\ HasSiteDomain(remote, cr[r].spec.NewDomain)
      /\ Undisturbed(LastOf(hist'[r])) )
    => /\ LastOf(hist'[r]).err = NoErr
       /\ LastOf(hist'[r]).obs = Present
       /\ cr'[r].atProvider.Domain = cr[r].spec.NewDomain

\* C3: Rename flow.  For a Site whose newDomain differs from the observed
\* domain, Observe reports exists and not up to date; the Update that follows
\* issues one PUT /sites/{id} for the site carrying the new domain; and the
\* Observe after the successful rename, the renamed site still being there,
\* reports exists and up to date and sees the site under the new domain.
C3_RenameFlow ==
    [][\A r \in Recs : C3_Drift(r) /\ C3_Rename(r) /\ C3_After(r)]_vars

----------------------------------------------------------------------------
(* C4 *)

\* a step of the Site rename flow: the Update, or the Observe after a
\* successful rename
RenameStep(r) ==
    /\ cr[r].kind = "Site"
    /\ Called(r, "Update") \/ (Called(r, "Observe") /\ Renamed(r))

HasObject(c, rs, id) ==
    IF c.kind = "Site" THEN HasSiteId(rs, id) ELSE HasGoalId(rs, id)

----------------------------------------------------------------------------
(* C5 *)

\* C5: No detectable duplicate goals.  A Create of a Goal record never
\* issues a create request while the goal list of the record's site holds a
\* goal with the record's goal type and event name or page path.
C5_NoDuplicateGoals ==
    [][\A r \in Recs :
          ( /\ Called(r, "Create") /\ cr[r].kind = "Goal"
            /\ Len(LastOf(hist'[r]).calls) > 0 )
          => MatchIds(cr[r], remote) = {}]_vars

----------------------------------------------------------------------------
(* C6 *)

C6_Missing(r) ==
    ( /\ Called(r, "Observe") /\ cr[r].kind = "Site" /\ cr[r].extName = ""
      /\ ~HasSiteDomain(remote, cr[r].spec.Domain)
      /\ Undisturbed(LastOf(hist'[r])) )
    => /\ LastOf(hist'[r]).err = NoErr
       /\ LastOf(hist'[r]).obs = Observation(FALSE, FALSE)
       /\ cr'[r].extName = ""

C6_Create(r) ==
    ( /\ Called(r, "Create") /\ cr[r].kind = "Site" /\ cr[r].extName = ""
      /\ ~HasSiteDomain(remote, cr[r].spec.Domain)
      /\ Undisturbed(LastOf(hist'[r])) )
    => /\ LastOf(hist'[r]).err = NoErr
       /\ LastOf(hist'[r]).calls[1].m = "POST"
       /\ HasSiteDomain(remote', cr[r].spec.Domain)
       /\ cr'[r].extName = cr[r].spec.Domain

C6_Next(r) ==
    ( /\ Called(r, "Observe") /\ cr[r].kind = "Site"
      /\ HasLast(r) /\ Last(r).op = "Create" /\ Last(r).ext = ""
      /\ Last(r).err = NoErr
      /\ cr[r].spec.NewDomain \in {Nil, cr[r].spec.Domain}
      /\ HasSiteId(remote, cr[r].extName)
      /\ Undisturbed(LastOf(hist'[r])) )
    => /\ LastOf(hist'[r]).err = NoErr
       /\ LastOf(hist'[r]).obs = Present
       /\ cr'[r].cond.Ready = "Available"
       /\ cr'[r].atProvider.Domain = cr[r].spec.Domain

----------------------------------------------------------------------------
(* C7 *)

\* the last tick of r ended in an Observe that reported exists, up to date
Converged(r) == Observed(r) /\ Last(r).obs = Present

\* C7: Convergence.  With reconcile ticks that keep coming, every request
\* answered and no out-of-band change, every record that is not being
\* deleted eventually has its Observe report exists and up to date, and
\* from then on for ever; also when the remote object was deleted out of
\* band before, and for a Site that sets newDomain.
C7_Convergence == \A r \in RecNames : <>[]Converged(r)

----------------------------------------------------------------------------
(* C8 *)

\* C8: Get-by-identity absence.  For a Site and for a Goal with an external
\* name, an Observe whose lookup request is answered with status 404 returns
\* no error and reports that the object does not exist; an Observe whose
\* lookup request fails in another way (no response, another error status)
\* returns an error and the empty observation.
C8_GetByIdentityAbsence ==
    \A r \in Recs : \A e \in Entries(r) :
        (e.op = "Observe" /\ e.ext # "" /\ Len(e.calls) > 0) =>
            /\ LastOf(e.calls).status = 404 =>
                  e.err = NoErr /\ ~e.obs.ResourceExists
            /\ (FailedCall(LastOf(e.calls)) /\ LastOf(e.calls).status # 404) =>
                  e.err # NoErr /\ e.obs = NoObservation

----------------------------------------------------------------------------
(* C9 *)

\* C9: No swallowed errors.  Every handler call (Observe, Create, Update,
\* Delete, of a Site or a Goal) that made a request which failed (no
\* response, or an error status) returns an error, except an Observe or a
\* Delete whose request was answered with status 404.
C9_NoSwallowedErrors ==
    \A r \in Recs : \A e \in Entries(r) : \A i \in 1..Len(e.calls) :
        ( /\ FailedCall(e.calls[i])
          /\ ~(e.calls[i].status = 404 /\ e.op \in {"Observe", "Delete"}) )
        => e.err # NoErr

----------------------------------------------------------------------------
(* C10 *)

\* C10: status.atProvider is written only by a successful Observe.  A step
\* that changes a record's status.atProvider is an Observe of that record
\* that returned no error: an Observe that returns an error, and every
\* Create, Update and Delete, leave it unchanged.
C10_AtProviderFrame ==
    [][\A r \in Recs :
          cr'[r].atProvider # cr[r].atProvider =>
             Called(r, "Observe") /\ LastOf(hist'[r]).err = NoErr]_vars

\* a successful rename, the status still showing the domain seen before it
C10_Witness ==
    \E r \in Recs :
        /\ Renamed(r)
        /\ cr[r].atProvider.Domain # ""
        /\ cr[r].atProvider.Domain # cr[r].spec.NewDomain
        /\ HasSiteDomain(remote, cr[r].spec.NewDomain)

----------------------------------------------------------------------------
(* C11 *)

\* C11: Goal immutability.  No Observe of a Goal reports exists and not up
\* to date, whatever the record's spec and the remote goals are; and Update
\* of a Goal, in every state, issues no request, returns no error and
\* leaves the record and the service as they are.
C11_GoalImmutable ==
    \A r \in Recs :
        cr[r].kind = "Goal" =>
            /\ \A e \in Entries(r) :
                  e.op = "Observe" =>
                      ~(e.obs.ResourceExists /\ ~e.obs.ResourceUpToDate)
            /\ GoalUpdate(cr[r], remote).err = NoErr
            /\ GoalUpdate(cr[r], remote).calls = <<>>
            /\ GoalUpdate(cr[r], remote).rs = remote
            /\ GoalUpdate(cr[r], remote).cr = cr[r]

\* a Goal observed as existing and up to date although the remote goal
\* of its external name has another event name than the spec
C11_Witness ==
    \E r \in Recs :
        /\ cr[r].kind = "Goal" /\ Observed(r) /\ Last(r).obs = Present
        /\ cr[r].spec.GoalType = "event" /\ cr[r].spec.EventName # Nil
        /\ cr[r].atProvider.ID = cr[r].extName
        /\ cr[r].atProvider.EventName # cr[r].spec.EventName

----------------------------------------------------------------------------
(* C12 *)

\* C12: Site drift rule.  An Observe of a Site that finds the site reports
\* not up to date exactly when spec.newDomain is set and differs from the
\* domain of the remote site it looked up; the team and the timezone of the
\* spec play no part.
C12_SiteDriftRule ==
    [][\A r \in Recs :
          ( /\ Called(r, "Observe") /\ cr[r].kind = "Site"
            /\ LastOf(hist'[r]).err = NoErr
            /\ LastOf(hist'[r]).obs.ResourceExists )
          => /\ HasSiteId(remote, cr'[r].extName)
             /\ ~LastOf(hist'[r]).obs.ResourceUpToDate <=>
                   /\ cr[r].spec.NewDomain # Nil
                   /\ cr[r].spec.NewDomain # SiteById(remote, cr'[r].extName).domain]_vars

\* a Site whose spec names a team the remote site does not have, observed
\* as existing and up to date
C12_Witness ==
    \E r \in Recs :
        /\ cr[r].kind = "Site" /\ Observed(r) /\ Last(r).obs = Present
        /\ cr[r].spec.TeamID # Nil /\ cr[r].spec.Timezone # Nil
        /\ cr[r].atProvider.TeamID # cr[r].spec.TeamID

----------------------------------------------------------------------------
(* C13 *)

C13_Failed(r) ==
    ( /\ Called(r, "Create") /\ cr[r].extName = ""
      /\ \/ LastOf(hist'[r]).calls = <<>>
         \/ \E i \in 1..Len(LastOf(hist'[r]).calls) : FailedCall(LastOf(hist'[r]).calls[i]) )
    => /\ LastOf(hist'[r]).err # NoErr
       /\ cr'[r].extName = ""

C13_Retry(r) ==
    /\ Called(r, "Create") => Observed(r)
    /\ ( /\ Called(r, "Observe")
         /\ HasLast(r) /\ Last(r).op = "Create" /\ Last(r).ext = ""
         /\ Last(r).err # NoErr )
       => /\ LastOf(hist'[r]).ext = ""
          /\ cr[r].kind = "Site" /\ LastOf(hist'[r]).calls # <<>> =>
                LastOf(hist'[r]).calls[1].p = "/sites"

\* C13: Failed create leaves identity unset.  A Create of a record without
\* external name whose create request fails (or, for a Goal, that fails
\* before any request, in validation or site resolution) returns an error
\* and leaves the external name empty; the handler called next is an
\* Observe, which runs discovery (no external name), and no Create happens
\* without an Observe right before it.
C13_FailedCreate ==
    [][\A r \in Recs : C13_Failed(r) /\ C13_Retry(r)]_vars

\* a Create whose response was lost after the service had created the
\* site, followed by an Observe that discovered the site by its domain
C13_Witness ==
    \E r \in Recs :
        /\ cr[r].kind = "Site" /\ Len(hist[r]) = 2
        /\ hist[r][1].op = "Create" /\ hist[r][1].ext = "" /\ hist[r][1].err # NoErr
        /\ hist[r][1].calls[1].status = 0
        /\ hist[r][2].op = "Observe" /\ hist[r][2].ext = "" /\ hist[r][2].err = NoErr
        /\ hist[r][2].calls[1].p = "/sites" /\ hist[r][2].obs.ResourceExists
        /\ cr[r].extName = cr[r].spec.Domain

----------------------------------------------------------------------------
(* C14 *)

\* the Goal lacks the field its goal type requires
LacksName(c) ==
    \/ c.spec.GoalType = "event" /\ c.spec.EventName = Nil
    \/ c.spec.GoalType = "page" /\ c.spec.PagePath = Nil

\* C14: Goal validation at Create.  A Create of a Goal of type event
\* without event name, or of type page without page path, returns an error
\* and issues no request.
C14_GoalValidation ==
    \A r \in Recs : \A e \in Entries(r) :
        (cr[r].kind = "Goal" /\ e.op = "Create" /\ LacksName(cr[r])) =>
            e.err # NoErr /\ e.calls = <<>>

\* a Create of a page Goal without page path, whose site resolves, that
\* returned the validation error
C14_Witness ==
    \E r \in Recs :
        /\ cr[r].kind = "Goal" /\ HasLast(r) /\ Last(r).op = "Create"
        /\ cr[r].spec.GoalType = "page" /\ cr[r].spec.PagePath = Nil
        /\ Last(r).err = NewErr("page path is required for page goals")
        /\ Last(r).calls = <<>>

----------------------------------------------------------------------------
(* C15, C16, C17: resolution of a Goal's site *)

\* the Goal's spec carries a direct site domain
HasDirect(c) == c.spec.SiteDomain # Nil /\ c.spec.SiteDomain # ""

\* the handler calls of a Goal that resolve its site
Resolving(e) == e.op \in {"Observe", "Create"}

\* C15: Reference resolution, direct value.  For a Goal whose direct site
\* domain is present and non-empty, the resolver returns that value without
\* error and fetches no record, whether or not a reference or a selector is
\* present and whether or not the cluster's API server answers; Observe and
\* Create fetch no record and address their requests to that domain.
C15_DirectValue ==
    \A r \in Recs :
        (cr[r].kind = "Goal" /\ HasDirect(cr[r])) =>
            /\ \A kf \in KubeFaults :
                  getSiteDomain(cr[r], kubeSites, kf) =
                     [val |-> cr[r].spec.SiteDomain, err |-> NoErr, gets |-> <<>>]
            /\ \A e \in Entries(r) :
                  Resolving(e) =>
                     /\ e.gets = <<>>
                     /\ \A i \in 1..Len(e.calls) :
                           \/ e.calls[i].m = "GET"
                              /\ e.calls[i].id = cr[r].spec.SiteDomain
                           \/ e.calls[i].m = "PUT"
                              /\ e.calls[i].body[1] = <<"site_id", cr[r].spec.SiteDomain>>

\* a Goal with direct value, reference and selector, observed through the
\* goal list of the direct value without a fetch of the referenced Site
C15_Witness ==
    \E r \in Recs :
        /\ cr[r].kind = "Goal" /\ HasDirect(cr[r])
        /\ cr[r].spec.SiteDomainRef # Nil /\ cr[r].spec.SiteDomainSelector # Nil
        /\ Observed(r) /\ Last(r).gets = <<>>
        /\ Last(r).calls[1].id = cr[r].spec.SiteDomain

C16_Blocks(r) ==
    ( /\ cr[r].kind = "Goal" /\ hist'[r] # hist[r]
      /\ Resolving(LastOf(hist'[r]))
      /\ LastOf(hist'[r]).gets # <<>>
      /\ LastOf(hist'[r]).gets[1].result # "ok" )
    => /\ Len(LastOf(hist'[r]).err) = 2
       /\ LastOf(hist'[r]).err[1] = "cannot get referenced Site"
       /\ LastOf(hist'[r]).calls = <<>>
       /\ LastOf(hist'[r]).obs = NoObservation
       /\ remote' = remote

C16_Fetches(r) ==
    ( /\ cr[r].kind = "Goal" /\ hist'[r] # hist[r]
      /\ Resolving(LastOf(hist'[r]))
      /\ ~HasDirect(cr[r]) /\ cr[r].spec.SiteDomainRef # Nil )
    => /\ Len(LastOf(hist'[r]).gets) = 1
       /\ LastOf(hist'[r]).gets[1].name = cr[r].spec.SiteDomainRef

C16_Tick(r) ==
    (HasLast(r) /\ Last(r).err # NoErr /\ hist'[r] # hist[r]) => Called(r, "Observe")

C17_NoSiteNamed ==
    \A r \in Recs :
        (cr[r].kind = "Goal" /\ ~HasDirect(cr[r]) /\ cr[r].spec.SiteDomainRef = Nil) =>
            LET msg == IF cr[r].spec.SiteDomainSelector # Nil
                       THEN "site domain selector is not yet implemented"
                       ELSE "no site domain specified"
            IN  /\ \A kf \in KubeFaults :
                      getSiteDomain(cr[r], kubeSites, kf) =
                         [val |-> "", err |-> NewErr(msg), gets |-> <<>>]
                /\ \A e \in Entries(r) :
                      Resolving(e) =>
                         e.err = NewErr(msg) /\ e.calls = <<>> /\ e.gets = <<>>

\* an Observe of a Goal that names its site by a selector only
C17_Witness ==
    \E r \in Recs :
        /\ cr[r].kind = "Goal" /\ ~HasDirect(cr[r])
        /\ cr[r].spec.SiteDomainRef = Nil /\ cr[r].spec.SiteDomainSelector # Nil
        /\ HasLast(r) /\ Last(r).op = "Observe"
        /\ Last(r).err = NewErr("site domain selector is not yet implemented")

----------------------------------------------------------------------------
(* C18 *)

\* one of the steps of GetConfig failed
StepFailed(e) == \E i \in 1..Len(e.gets) : e.gets[i].result = "failed"

C18_Fatal(r) ==
    (Called(r, "Connect") /\ StepFailed(LastOf(hist'[r])))
    => /\ LastOf(hist'[r]).err # NoErr
       /\ ~LastOf(hist'[r]).client
       /\ LastOf(hist'[r]).calls = <<>>
       /\ remote' = remote
       /\ cr'[r] = cr[r]

C18_NoHandler(r) ==
    /\ Called(r, "Observe") => Connected(r)
    /\ (Called(r, "Create") \/ Called(r, "Update")) => Observed(r)

\* C18: Connect failure is fatal for the tick.  A Connect in which getting
\* the ProviderConfig (or its reference), tracking the usage, extracting the
\* credentials or unmarshalling them fails returns an error and no client,
\* issues no request, leaves the service and the record (external name and
\* status.atProvider included) as they were; and no handler runs without a
\* client: Observe only follows a Connect that returned one, Create and
\* Update only an Observe.
C18_ConnectFatal ==
    [][\A r \in Recs : C18_Fatal(r) /\ C18_NoHandler(r)]_vars

\* a record that was observed with its remote object, whose next tick
\* failed in Connect on credentials that do not unmarshal
C18_Witness ==
    \E r \in Recs :
        /\ Len(hist[r]) = 2 /\ hist[r][1].op = "Observe" /\ hist[r][1].obs = Present
        /\ hist[r][2].op = "Connect" /\ ~hist[r][2].client
        /\ hist[r][2].err = Wrap(<<"invalid character">>, "cannot unmarshal credentials")
        /\ cr[r].extName # "" /\ cr[r].atProvider.ID = cr[r].extName

----------------------------------------------------------------------------
(* C19, C20: the list helpers *)

\* pages a paged server cuts a collection of n objects into
Pages(n) == IF n = 0 THEN 1 ELSE (n + PageSize - 1) \div PageSize

\* what ListSites / ListGoals return for the call pager stands for
Helper == 
    IF pager.kind = "sites" THEN ListSites(remote, pager.f)
    ELSE ListGoals(remote, DomA, pager.f)

\* C19: Pagination completeness.  When a paged server hands out the
\* collection in N pages, each with a non-empty cursor but the last, and no
\* request fails, the list helper (ListSites, ListGoals) returns after
\* exactly N requests, the first without cursor and each later one with
\* the cursor of the page before, and returns the items of all pages in
\* page order; ListSites and ListGoals as the handlers call them return the
\* same items, error and requests.
C19_PaginationComplete ==
    (pager.mode = "paged" /\ pager.done) =>
        /\ pager.err = NoErr =>
              /\ Len(pager.reqs) = Pages(Len(Listed(remote, pager.kind)))
              /\ pager.reqs[1] = 0
              /\ \A k \in 1..(Len(pager.reqs) - 1) :
                    /\ pager.reqs[k + 1] # 0
                    /\ pager.reqs[k + 1] =
                          SrvPage(Listed(remote, pager.kind), pager.reqs[k]).after
              /\ pager.acc = Listed(remote, pager.kind)
        /\ Helper.err = pager.err
        /\ Helper.val = pager.acc
        /\ [k \in 1..Len(Helper.calls) |-> Helper.calls[k].after] = pager.reqs

\* a list of MaxItems sites fetched page by page without failure
C19_Witness ==
    /\ pager.mode = "paged" /\ pager.done /\ pager.err = NoErr
    /\ pager.kind = "sites"
    /\ Len(pager.acc) = MaxItems /\ Len(pager.reqs) = Pages(MaxItems)
    /\ Len(pager.reqs) > 1

\* C20 as stated: the list helper returns eventually, whatever the server
\* answers.
C20_AlwaysTerminates == <>pager.done

C20_StopRule ==
    /\ pager.done => pager' = pager
    /\ pager' # pager =>
          /\ \/ Len(pager'.reqs) = Len(pager.reqs) + 1
             \/ Len(pager.reqs) = MaxPages /\ pager'.spin # pager.spin
          /\ pager'.done <=>
                \/ pager'.err # NoErr
                \/ ServedPage(pager.mode, Listed(remote, pager.kind), pager.after).after = 0

\* C20: Pagination termination.  The list helper returns as soon as a
\* request fails or a page with an empty cursor is received, and issues a
\* further request after every other page; so it returns eventually from a
\* server that ends its pages with an empty cursor, and from a server that
\* returns a non-empty cursor on every page it never returns unless a
\* request fails.
C20_StopsOnEmptyCursor ==
    /\ [][C20_StopRule]_vars
    /\ pager.mode = "paged" => <>pager.done
    /\ [](pager.mode = "echo" /\ pager.done => pager.err # NoErr)

\* a helper that has issued three requests to a server that never sends an
\* empty cursor and has not returned
C20_Witness ==
    /\ pager.mode = "echo" /\ ~pager.done
    /\ Len(pager.reqs) >= 3 /\ pager.after # 0

----------------------------------------------------------------------------
(* C21, C22: errors of the client *)

\* the error doRequest / parseResponse gave for the request c
ClientError(c) ==
    IF c.status = 0 THEN doRequest([neterr |-> TRUE])
    ELSE parseResponse([status |-> c.status, text |-> c.text], FALSE)

\* every request of every recorded handler call
Requests ==
    UNION {{e.calls[i] : i \in 1..Len(e.calls)} :
              e \in UNION {Entries(r) : r \in Recs}}

\* C21: Not-found classification.  IsNotFound is false of the nil error and
\* of an error without the text "status 404", and true of every other; so
\* it is true of the error the client makes of a response with status 404,
\* and false of the error made of a response with status 500 and of the
\* error made of a request that got no response.
C21_NotFoundClassification ==
    /\ ~IsNotFound(NoErr)
    /\ \A c \in Requests :
          /\ IsNotFound(ClientError(c)) <=>
                (ClientError(c) # NoErr /\ Carries404(ClientError(c)))
          /\ c.status = 404 => IsNotFound(ClientError(c))
          /\ c.status = 500 => ~IsNotFound(ClientError(c))
          /\ c.status = 0 => ~IsNotFound(ClientError(c))

\* the error names the status code
CarriesStatus(err, st) ==
    \E i \in 1..(Len(err) - 1) : err[i] = "status" /\ err[i + 1] = StatusText(st)

\* C22: Non-2xx responses are errors.  Every operation of the client that
\* receives a response with a status outside 200..299 returns an error that
\* carries that status and returns no object, except GetSite when the
\* status is 404.
C22_NonSuccessIsError ==
    \A r \in Recs : \A e \in Entries(r) : \A i \in 1..Len(e.calls) :
        ( /\ e.calls[i].status # 0
          /\ e.calls[i].status \notin 200..299
          /\ ~(e.op = "GetSite" /\ e.calls[i].status = 404) )
        => /\ e.err # NoErr
           /\ CarriesStatus(e.err, e.calls[i].status)
           /\ e.val = <<>>

----------------------------------------------------------------------------
(* C23 *)

\* what a request sends: method, path, identifier, cursor and body
Sent(c) == <<c.m, c.p, c.id, c.after, c.body>>

\* C23: No internal retry.  In every call of Observe, Create, Update or
\* Delete, a request that meets a transient failure (no response, or a 5xx
\* status) is the last request of the call and the call returns an error;
\* and no call sends the same request twice.
C23_NoInternalRetry ==
    \A r \in Recs : \A e \in Entries(r) :
        /\ \A i \in 1..Len(e.calls) :
              Transient(e.calls[i]) => i = Len(e.calls) /\ e.err # NoErr
        /\ \A i, j \in 1..Len(e.calls) :
              i # j => Sent(e.calls[i]) # Sent(e.calls[j])

----------------------------------------------------------------------------
(* C24 *)

\* C24: Cancellation.  Once the context of a tick is cancelled, the handler
\* in progress issues no further request, further pages of a list
\* included, and does not set the record's external name.
C24_Cancellation ==
    [][\A r \in Recs :
          Cancelled(r) =>
             /\ Len(pager'.reqs) = Len(pager.reqs)
             /\ cr'[r].extName = cr[r].extName]_vars

----------------------------------------------------------------------------
(* C25 *)

\* the natural key of a record
KeyOf(c) ==
    IF c.kind = "Site" THEN <<"Site", c.spec.Domain>>
    ELSE <<"Goal", c.spec.SiteDomain, c.spec.GoalType, c.spec.EventName, c.spec.PagePath>>

\* the remote sites and goals that are the record's: those of its natural
\* key, of the domain it is renamed to, and of its external name
OwnSite(c, s) ==
    c.kind = "Site" /\ (s.domain \in {c.spec.Domain, c.spec.NewDomain} \/ s.id = c.extName)
OwnGoal(c, g) ==
    c.kind = "Goal" /\ ((g.site = c.spec.SiteDomain /\ SameKey(c, g)) \/ g.id = c.extName)

\* the service with the record's own objects only (a Goal's sites are not
\* objects of the Goal and stay)
Alone(rs, c) ==
    LET S(s) == c.kind = "Goal" \/ OwnSite(c, s)
        G(g) == OwnGoal(c, g)
    IN  [rs EXCEPT !.sites = SelectSeq(@, S), !.goals = SelectSeq(@, G)]

\* the handler op called on record c against the service rs
OutOn(c, op, rs) ==
    CASE op = "Observe" -> IF c.kind = "Site" THEN SiteObserve(c, rs, NoFault)
                           ELSE GoalObserve(c, rs, kubeSites, NoFault, "ok")
      [] op = "Create" -> IF c.kind = "Site" THEN SiteCreate(c, rs, NoFault)
                          ELSE GoalCreate(c, rs, kubeSites, NoFault, "ok")
      [] op = "Update" -> IF c.kind = "Site" THEN SiteUpdate(c, rs, NoFault)
                          ELSE GoalUpdate(c, rs)
      [] op = "Delete" -> IF c.kind = "Site" THEN SiteDelete(c, rs, NoFault)
                          ELSE GoalDelete(c, rs, NoFault)

C25_Step(r, q) ==
    (r # q /\ KeyOf(cr[r]) # KeyOf(cr[q]) /\ hist'[r] # hist[r]) =>
        LET e == LastOf(hist'[r])
            alone == OutOn(cr[r], e.op, Alone(remote, cr[r]))
        IN  /\ cr'[q] = cr[q] /\ hist'[q] = hist[q]
            /\ Alone(remote', cr[q]).sites = Alone(remote, cr[q]).sites
            /\ Alone(remote', cr[q]).goals = Alone(remote, cr[q]).goals
            /\ cr'[r] = alone.cr /\ e.err = alone.err /\ e.obs = alone.obs
            /\ Alone(remote', cr[r]) = alone.rs

C25_Bound(r, q) ==
    (r # q /\ KeyOf(cr[r]) # KeyOf(cr[q]) /\ cr[r].extName # "") =>
        cr[r].extName \notin MatchIds(cr[q], remote)

----------------------------------------------------------------------------
(* C26 *)

\* another record has the natural key of r
HasTwin(r) == \E q \in Recs : q # r /\ KeyOf(cr[q]) = KeyOf(cr[r])

\* the remote goal with that identifier
GoalById(rs, id) ==
    rs.goals[CHOOSE i \in 1..Len(rs.goals) : rs.goals[i].id = id]

\* C26: Duplicate-creation race.  Of two Goal records with the same site,
\* goal type and event name, a Create (which follows an Observe of that
\* record whose scan found no match) sends its create request without
\* scanning again, and the service, which does not enforce uniqueness,
\* adds a goal under a new identifier whatever goals it holds, a goal of
\* the same key included; so when both scans ran before either Create,
\* both Creates succeed and two remote goals have the same natural key.
C26_CreateRace ==
    [][\A r \in Recs :
          ( /\ Called(r, "Create") /\ cr[r].kind = "Goal" /\ HasTwin(r) )
          => /\ Observed(r) /\ ~Last(r).obs.ResourceExists
             /\ LastOf(hist'[r]).err = NoErr
             /\ Len(LastOf(hist'[r]).calls) = 1
             /\ LastOf(hist'[r]).calls[1].m = "PUT"
             /\ ~HasGoalId(remote, cr'[r].extName)
             /\ Len(remote'.goals) = Len(remote.goals) + 1
             /\ LastOf(remote'.goals).id = cr'[r].extName
             /\ SameKey(cr[r], LastOf(remote'.goals))]_vars

\* both records scanned, found no match and created: each is bound to a
\* goal of its own and the two goals have the same natural key
C26_Witness ==
    /\ DOMAIN cr = TwoRecs /\ KeyOf(cr["r1"]) = KeyOf(cr["r2"])
    /\ \A r \in Recs :
          /\ cr[r].kind = "Goal" /\ Len(hist[r]) = 2
          /\ hist[r][1].op = "Observe" /\ hist[r][1].ext = ""
          /\ hist[r][1].err = NoErr /\ ~hist[r][1].obs.ResourceExists
          /\ hist[r][2].op = "Create" /\ hist[r][2].err = NoErr
          /\ HasGoalId(remote, cr[r].extName)
          /\ SameKey(cr[r], GoalById(remote, cr[r].extName))
          /\ GoalById(remote, cr[r].extName).site = cr[r].spec.SiteDomain
    /\ cr["r1"].extName # cr["r2"].extName

----------------------------------------------------------------------------
(* C27 *)

\* Observe called on record c against the service rs
ObserveOn(c, rs, f, kf) ==
    IF c.kind = "Site" THEN SiteObserve(c, rs, f)
    ELSE GoalObserve(c, rs, kubeSites, f, kf)

\* the record as it is applied: its spec and external name, nothing of
\* what earlier ticks left in its status
Fresh(c) ==
    [c EXCEPT !.atProvider = IF c.kind = "Site" THEN SiteAtProviderZero
                             ELSE GoalAtProviderZero,
              !.cond = NoCond]

\* C27: No cross-tick cache.  Whatever ticks ran before, an Observe of a
\* record returns the error and the observation, issues the requests and
\* writes the external name and status.atProvider that an Observe of a
\* record of the same spec and external name on which no tick has run
\* returns, issues and writes against the same remote state (and the same
\* failure of a request, if any); an Observe that finds nothing writes no
\* status.
C27_NoCrossTickCache ==
    \A r \in Recs : \A f \in Faults, kf \in KubeFaults :
        LET a == ObserveOn(cr[r], remote, f, kf)
            b == ObserveOn(Fresh(cr[r]), remote, f, kf)
        IN  /\ a.err = b.err /\ a.obs = b.obs /\ a.calls = b.calls
            /\ a.cr.extName = b.cr.extName
            /\ a.obs.ResourceExists => a.cr.atProvider = b.cr.atProvider
            /\ ~a.obs.ResourceExists =>
                  a.cr.atProvider = cr[r].atProvider /\ b.cr.atProvider = Fresh(cr[r]).atProvider

\* a Site observed under one domain, renamed, and observed again: the
\* second Observe shows the new domain and reports up to date
C27_Witness ==
    \E r \in Recs :
        /\ cr[r].kind = "Site" /\ Len(hist[r]) = 2
        /\ hist[r][1].op = "Update" /\ hist[r][1].err = NoErr
        /\ Len(hist[r][1].calls) = 1 /\ hist[r][1].calls[1].status = 200
        /\ hist[r][2].op = "Observe" /\ hist[r][2].obs = Present
        /\ cr[r].atProvider.Domain = cr[r].spec.NewDomain
        /\ cr[r].atProvider.Domain # cr[r].spec.Domain

----------------------------------------------------------------------------
(* C28 *)

\* the ProviderConfigUsage objects of record r
UsagesOf(r) == {u \in usages : u.owner = r}

\* C28: UsageMarker creation is idempotent.  A record never has more than
\* one ProviderConfigUsage, and has exactly one after a Connect that
\* returned a client, however many Connects went before; and a Connect
\* of a record whose ProviderConfigUsage exists, none of its steps being
\* made to fail, returns a client and no error and leaves the usages as
\* they are.
C28_UsageIdempotent ==
    \A r \in Recs :
        /\ Cardinality(UsagesOf(r)) <= 1
        /\ Connected(r) => Cardinality(UsagesOf(r)) = 1
        /\ UsagesOf(r) # {} =>
              /\ Connect(r, usages, "ok").err = NoErr
              /\ Connect(r, usages, "ok").client
              /\ Connect(r, usages, "ok").usages = usages

\* two Connects of a record in a row that both returned a client, and
\* one ProviderConfigUsage
C28_Witness ==
    \E r \in Recs :
        /\ Len(hist[r]) = 2
        /\ hist[r][1].op = "Connect" /\ hist[r][1].client
        /\ hist[r][2].op = "Connect" /\ hist[r][2].client
        /\ hist[r][2].err = NoErr
        /\ UsagesOf(r) = {Usage(r)}

----------------------------------------------------------------------------
(* C29 *)

\* C29: Conditions after Observe.  An Observe of a Site that finds the
\* site sets the Available condition and no other, so that a record
\* without conditions has exactly one afterwards, sets the external name
\* to the identifier of the site found and status.atProvider to its
\* identifier and domain; an Observe that reports that nothing exists
\* changes no condition and not the external name.
C29_ObserveConditions ==
    [][\A r \in Recs :
          ( /\ Called(r, "Observe") /\ cr[r].kind = "Site"
            /\ LastOf(hist'[r]).err = NoErr )
          => IF LastOf(hist'[r]).obs.ResourceExists
             THEN /\ cr'[r].cond = [cr[r].cond EXCEPT !.Ready = "Available"]
                  /\ HasSiteId(remote, cr'[r].extName)
                  /\ cr'[r].atProvider.ID = cr'[r].extName
                  /\ cr'[r].atProvider.Domain = SiteById(remote, cr'[r].extName).domain
             ELSE /\ cr'[r].cond = cr[r].cond
                  /\ cr'[r].extName = cr[r].extName]_vars

----------------------------------------------------------------------------
(* C30 *)

\* the one request of a rename of the site id to the domain nd
IsRename(calls, id, nd) ==
    /\ Len(calls) = 1
    /\ calls[1].m = "PUT" /\ calls[1].p = "/sites/{id}" /\ calls[1].id = id
    /\ calls[1].body = <<<<"domain", nd>>>>

\* C30: Minimal Site update.  Update of a Site, in every state and
\* whatever happens to its request, issues exactly one request, the rename
\* of the site named by the external name to spec.newDomain with a body
\* that holds the domain only, when spec.newDomain is set and differs from
\* status.atProvider.domain; otherwise it issues no request, returns no
\* error and leaves the service as it is; it never changes the record.
\* The Updates the reconciler calls are of the first kind.
C30_MinimalSiteUpdate ==
    \A r \in Recs :
        cr[r].kind = "Site" =>
            /\ \A f \in Faults :
                  LET o == SiteUpdate(cr[r], remote, f)
                  IN  /\ o.cr = cr[r]
                      /\ IF WantsRename(cr[r])
                         THEN IsRename(o.calls, cr[r].extName, cr[r].spec.NewDomain)
                         ELSE o.calls = <<>> /\ o.err = NoErr /\ o.rs = remote
            /\ \A e \in Entries(r) :
                  e.op = "Update" => IsRename(e.calls, e.ext, cr[r].spec.NewDomain)

\* a Site whose spec names a team, renamed by an Update and observed
\* again: its domain is the one asked for, its team is not the spec's, and
\* an Update would send nothing
C30_Witness ==
    \E r \in Recs :
        /\ cr[r].kind = "Site" /\ Len(hist[r]) = 2
        /\ hist[r][1].op = "Update" /\ hist[r][1].err = NoErr
        /\ hist[r][1].calls[1].status = 200
        /\ hist[r][2].op = "Observe" /\ hist[r][2].obs = Present
        /\ cr[r].spec.TeamID # Nil /\ cr[r].atProvider.TeamID # cr[r].spec.TeamID
        /\ ~WantsRename(cr[r])
        /\ SiteUpdate(cr[r], remote, NoFault).calls = <<>>

----------------------------------------------------------------------------
(* C31 *)

\* status.atProvider is the image of a remote object of the service
SeenRemote(c, rs) ==
    IF c.kind = "Site"
    THEN \E i \in 1..Len(rs.sites) :
            c.atProvider = [ID |-> rs.sites[i].id, Domain |-> rs.sites[i].domain,
                            TeamID |-> rs.sites[i].team]
    ELSE \E i \in 1..Len(rs.goals) :
            c.atProvider = [ID |-> rs.goals[i].id, GoalType |-> rs.goals[i].goal_type,
                            EventName |-> rs.goals[i].event_name,
                            PagePath |-> rs.goals[i].page_path]

\* C31: status.atProvider tracks the last successful observation.  After
\* every Observe that returns no error, status.atProvider is what that
\* observation saw: the attributes of the remote object when it reports
\* that the object exists, and no attributes of an object seen earlier when
\* it reports that the object does not exist.
C31_AtProviderTracks ==
    [][\A r \in Recs :
          (Called(r, "Observe") /\ LastOf(hist'[r]).err = NoErr) =>
              IF LastOf(hist'[r]).obs.ResourceExists
              THEN SeenRemote(cr'[r], remote')
              ELSE cr'[r].atProvider.ID = ""]_vars

----------------------------------------------------------------------------
(* C32 *)

\* the applications of goalMatches made so far, with their two arguments
Matched ==
    UNION {{[c |-> cr[r], goal |-> remote.goals[1], val |-> e.val] :
               e \in {x \in Entries(r) : x.op = "Match"}} : r \in Recs}

\* C32: Goal natural-key match.  A remote goal matches a Goal record
\* exactly when their goal kinds are equal and, for kind event, the
\* record's event name is present and equal to the remote event name, or,
\* for kind page, the record's page path is present and equal to the remote
\* page path; the field of the other kind is ignored (the answer is the
\* same whatever the record's and the remote goal's other field hold), and
\* a kind other than event and page never matches.
C32_NaturalKeyMatch ==
    \A m \in Matched :
        LET sp == m.c.spec
            g == m.goal
        IN  /\ m.val <=>
                 /\ sp.GoalType = g.goal_type
                 /\ \/ /\ sp.GoalType = "event"
                       /\ sp.EventName # Nil /\ sp.EventName = g.event_name
                    \/ /\ sp.GoalType = "page"
                       /\ sp.PagePath # Nil /\ sp.PagePath = g.page_path
            /\ sp.GoalType = "event" =>
                  \A pp \in MatchPaths \cup {Nil}, q \in MatchPaths :
                      goalMatches([m.c EXCEPT !.spec.PagePath = pp],
                                  [g EXCEPT !.page_path = q]) = m.val
            /\ sp.GoalType = "page" =>
                  \A ev \in MatchEvents \cup {Nil}, q \in MatchEvents :
                      goalMatches([m.c EXCEPT !.spec.EventName = ev],
                                  [g EXCEPT !.event_name = q]) = m.val
            /\ sp.GoalType \notin {"event", "page"} => ~m.val

\* a page goal matched on its path although the event names differ
C32_Witness ==
    \E m \in Matched :
        /\ m.val /\ m.c.spec.GoalType = "page"
        /\ m.c.spec.EventName # Nil /\ m.c.spec.EventName # m.goal.event_name

----------------------------------------------------------------------------
(* C33 *)

\* the remote object with identifier id, as status.atProvider shows it
ImageOf(c, rs, id) ==
    IF c.kind = "Site"
    THEN {[ID |-> rs.sites[i].id, Domain |-> rs.sites[i].domain,
           TeamID |-> rs.sites[i].team] :
             i \in {j \in 1..Len(rs.sites) : rs.sites[j].id = id}}
    ELSE {[ID |-> rs.goals[i].id, GoalType |-> rs.goals[i].goal_type,
           EventName |-> rs.goals[i].event_name, PagePath |-> rs.goals[i].page_path] :
             i \in {j \in 1..Len(rs.goals) : rs.goals[j].id = id}}

----------------------------------------------------------------------------
(* C34 *)

\* a page request of a list
ListCall(c) == c.p \in {"/sites", "/sites/goals?site_id="}

\* one of the list's page requests failed
FailedPage(calls) ==
    \E i \in 1..Len(calls) : ListCall(calls[i]) /\ FailedCall(calls[i])

\* records whose Observe goes through a list: Sites and Goals without
\* external name, of every natural key the collections hold, and a Goal
\* with one
ScanRecords ==
    {SiteRecord(PlainSite(d, Nil), "") : d \in Domains}
    \cup {GoalRecord(EventGoal(DomA, ev), ext) :
             ev \in {"signup", "other"}, ext \in {"", "g1"}}

\* the client's operations that go through a list
ListOps == {"ListSites", "GetSiteByDomain", "ListGoals", "GetGoal"}

\* C34: No decision on a partial listing.  When a page request of a
\* paginated list fails (no response, or an error status), ListSites and
\* ListGoals, and GetSiteByDomain and GetGoal on top of them, return an
\* error and no items, whatever the pages fetched before held; and an
\* Observe one of whose list requests failed returns an error with the
\* empty observation and leaves the record as it was: it reports nothing
\* as missing and adopts nothing.
C34_NoPartialListing ==
    /\ \A f \in Faults :
          /\ \A l \in {ListSites(remote, f)} \cup {ListGoals(remote, d, f) : d \in Domains} :
                FailedPage(l.calls) => l.err # NoErr /\ l.val = <<>>
          /\ \A c \in ScanRecords :
                LET o == ObserveOn(c, remote, f, "ok")
                IN  FailedPage(o.calls) =>
                       o.err # NoErr /\ o.obs = NoObservation /\ o.cr = c
    /\ \A r \in Recs : \A e \in Entries(r) :
          (e.op \in ListOps /\ FailedPage(e.calls)) =>
              e.err # NoErr /\ e.val = <<>>

\* a lookup by domain whose second page request failed after the first
\* page, which holds the site looked for, was fetched: the lookup returned
\* an error and no site, and an Observe of a record of that domain fails
\* in the same way
C34_Witness ==
    \E r \in Recs :
        /\ HasLast(r) /\ Last(r).op = "GetSiteByDomain" /\ Len(Last(r).calls) = 2
        /\ Last(r).calls[1].status = 200 /\ FailedCall(Last(r).calls[2])
        /\ Last(r).err # NoErr /\ Last(r).val = <<>>
        /\ remote.sites[1].domain = Last(r).ext
        /\ \E f \in Faults :
              LET o == ObserveOn(SiteRecord(PlainSite(Last(r).ext, Nil), ""), remote, f, "ok")
              IN  Len(o.calls) = 2 /\ FailedPage(o.calls) /\ o.err # NoErr

----------------------------------------------------------------------------
(* C35 *)

\* the entry is an Observe that returned no error and reported the object
\* as existing
SawObject(e) == e.op = "Observe" /\ e.err = NoErr /\ e.obs.ResourceExists

\* C35: Observe and Update agree on drift.  For a Site, in every state
\* whose last handler call is an Observe that reported the site as
\* existing, an Update called now issues the rename request (of the site
\* named by the external name, to spec.newDomain) when that Observe
\* reported not up to date, and no request when it reported up to date,
\* whatever happens to the request; and every Update the reconciler called
\* right after such an Observe followed a report of not up to date and
\* issued the rename request.
C35_ObserveUpdateAgree ==
    \A r \in Recs :
        cr[r].kind = "Site" =>
            /\ (HasLast(r) /\ SawObject(Last(r))) =>
                  \A f \in Faults :
                      LET o == SiteUpdate(cr[r], remote, f)
                      IN  IF Last(r).obs.ResourceUpToDate
                          THEN o.calls = <<>>
                          ELSE IsRename(o.calls, cr[r].extName, cr[r].spec.NewDomain)
            /\ (/\ Len(hist[r]) = 2 /\ SawObject(hist[r][1])
                /\ hist[r][2].op = "Update") =>
                  /\ ~hist[r][1].obs.ResourceUpToDate
                  /\ IsRename(hist[r][2].calls, hist[r][2].ext, cr[r].spec.NewDomain)

\* a rename sent by the Update that followed an Observe reporting drift,
\* and, later, an Observe of the renamed site that reports it up to date
C35_Witness ==
    \E r \in Recs :
        /\ cr[r].kind = "Site" /\ Len(hist[r]) = 2
        /\ \/ /\ SawObject(hist[r][1]) /\ ~hist[r][1].obs.ResourceUpToDate
              /\ hist[r][2].op = "Update"
              /\ IsRename(hist[r][2].calls, hist[r][2].ext, cr[r].spec.NewDomain)
           \/ /\ hist[r][1].op = "Update" /\ hist[r][1].err = NoErr
              /\ SawObject(hist[r][2]) /\ hist[r][2].obs.ResourceUpToDate
              /\ cr[r].spec.NewDomain # cr[r].spec.Domain
              /\ SiteUpdate(cr[r], remote, NoFault).calls = <<>>

----------------------------------------------------------------------------
(* C36 *)

\* the remote object the external name refers to has another natural key
\* than the record's spec
OtherKey(c, rs) ==
    IF c.kind = "Site" THEN SiteById(rs, c.extName).domain # c.spec.Domain
    ELSE ~SameKey(c, GoalById(rs, c.extName))

\* C36: The identity path does not re-check the natural key.  For a record
\* with an external name, Observe never changes the external name,
\* whatever happens to its requests; and when the remote object of that
\* identity exists where the record looks for it and the requests are
\* answered, Observe returns no error and reports that the object exists,
\* and that it is up to date for a Goal and for a Site without newDomain,
\* also when the object's domain (Site) or kind and value (Goal) differ
\* from the record's spec.
C36_NoKeyRecheck ==
    \A r \in Recs :
        cr[r].extName # "" =>
            /\ \A f \in Faults, kf \in KubeFaults :
                  ObserveOn(cr[r], remote, f, kf).cr.extName = cr[r].extName
            /\ StillThere(cr[r], remote, cr[r].extName) =>
                  LET o == ObserveOn(cr[r], remote, NoFault, "ok")
                  IN  /\ o.err = NoErr /\ o.obs.ResourceExists
                      /\ (cr[r].kind = "Goal" \/ cr[r].spec.NewDomain = Nil)
                            => o.obs.ResourceUpToDate

\* an Observe by identity that reported as existing and up to date an
\* object whose natural key is not the one of the spec
C36_Witness ==
    \E r \in Recs :
        /\ cr[r].extName # "" /\ StillThere(cr[r], remote, cr[r].extName)
        /\ OtherKey(cr[r], remote)
        /\ Observed(r) /\ Last(r).ext = cr[r].extName /\ Last(r).obs = Present
        /\ cr[r].atProvider.ID = cr[r].extName

----------------------------------------------------------------------------
(* C37 *)

\* a discovery of r while its twin q holds an identity: r is bound to an
\* object of its natural key, the one q is bound to when that is the only
\* one, and q's binding is not looked at
C37_Adopts(r, q) ==
    ( /\ Called(r, "Observe") /\ cr[r].extName = ""
      /\ cr[q].extName # "" /\ cr[q].extName \in MatchIds(cr[r], remote) )
    => /\ LastOf(hist'[r]).err = NoErr /\ LastOf(hist'[r]).obs.ResourceExists
       /\ cr'[r].extName \in MatchIds(cr[r], remote)
       /\ MatchIds(cr[r], remote) = {cr[q].extName} => cr'[r].extName = cr[q].extName
       /\ cr'[q] = cr[q]

\* a Delete of r while its twin q is bound to the same object: the object
\* is removed and q stays bound to it
C37_Removes(r, q) ==
    ( /\ Called(r, "Delete") /\ cr[r].extName # ""
      /\ cr[q].extName = cr[r].extName
      /\ StillThere(cr[r], remote, cr[r].extName) )
    => /\ LastOf(hist'[r]).err = NoErr
       /\ ~StillThere(cr[q], remote', cr[q].extName)
       /\ cr'[q] = cr[q]

\* C37: Adoption is not exclusive.  Of two distinct records with the same
\* natural key whose requests are answered, an Observe of the one without
\* external name is bound to a remote object of that key although the
\* other record is bound to it already (to the same object when it is the
\* only one of that key), and a Delete of one of two records bound to the
\* same object removes the object and leaves the other record bound to an
\* object that is gone.
C37_AdoptionNotExclusive ==
    [][\A r, q \in Recs :
          (r # q /\ KeyOf(cr[r]) = KeyOf(cr[q])) =>
              C37_Adopts(r, q) /\ C37_Removes(r, q)]_vars

\* two records of one key reconciled one after the other and bound to the
\* same identity; one was deleted, and the object the other one observed
\* as existing is gone
C37_Witness ==
    \E r, q \in Recs :
        /\ r # q /\ KeyOf(cr[r]) = KeyOf(cr[q])
        /\ cr[r].extName # "" /\ cr[q].extName = cr[r].extName
        /\ HasLast(r) /\ Last(r).op = "Delete" /\ Last(r).err = NoErr
        /\ Last(r).calls[1].status = 204
        /\ ~cr[q].deleting /\ Observed(q) /\ Last(q).obs = Present
        /\ cr[q].atProvider.ID = cr[q].extName
        /\ ~StillThere(cr[q], remote, cr[q].extName)

====
